---- MODULE Spec2Model ----
(***************************************************************************)
(* A model of basket's subscription reconciliation (news/tasks.py):        *)
(* parse_newsletters, which computes the subscription diff and the flag    *)
(* fields of the vendor record, update_user, which decides among the five  *)
(* confirmation outcomes and issues the vendor calls, and the wrapper      *)
(* et_task, which retries the tasks that fail with an error worth a retry. *)
(***************************************************************************)
EXTENDS Naturals, Sequences, FiniteSets, TLC

VARIABLES
    pc,               \* position of the modelled run
    today,            \* date.today().strftime('%Y-%m-%d')
    type,             \* the action: SUBSCRIBE, UNSUBSCRIBE or SET
    newsletters,      \* the target list of slugs
    cur_newsletters,  \* the current subscriptions: a known set, or None
    record,           \* the dict of vendor fields built for the vendor
    to_subscribe,     \* first result of parse_newsletters
    to_unsubscribe,   \* second result of parse_newsletters
    cur_before,       \* the current subscriptions before the diff was applied
    data,             \* the request data of update_user
    optin,            \* its argument optin: bypass the double opt-in
    found,            \* what get_user_data returned to it
    vendor,           \* the vendor's behaviour during the run
    user_data,        \* its user_data once completed (lines 399-420)
    exempt_from_confirmation,
    should_send_welcomes,
    return_code,      \* its return_code, NoCode while not assigned
    exc,              \* the exception the run raised, "" for none
    calls,            \* the vendor calls the run issued, in order
    bad_message_ids,  \* the keys of BAD_MESSAGE_ID_CACHE
    retries,          \* request.retries of the dispatched task
    runs,             \* the executions of its body so far
    dispatches,       \* the tasks dispatched so far
    task_message_id,  \* the message id its last execution computed
    bad_before,       \* BAD_MESSAGE_ID_CACHE when its last execution began
    task,             \* the name and the arguments of the dispatched task
    failed_tasks,     \* the rows of the table of FailedTask
    replayed,         \* the rows replayed and the tasks queued, latest first
    newsletter_rows,  \* the vendor id of each row of the Newsletter table
    newsletter_cache, \* the registry's cache of the table, or None
    observed,         \* what the last two reads of the registry returned
    reader,           \* a reader of the registry: its position and its data
    writer,           \* a writer of a Newsletter: its position
    subscribers,      \* the token and fxa_id of each row of Subscriber
    issued,           \* the token each Subscriber was created with
    request,          \* the request the subscribe view received
    response,         \* its response: the status and the description
    api_users,        \* the rows of the table of APIUser
    procs,            \* the position and the locals of each concurrent task
    vendor_record,    \* the user's record at the vendor
    rejected,         \* the message ids the vendor rejected as invalid
    owed              \* the sends that failed in the earlier attempts of a task

parse_vars == <<today, type, newsletters, cur_newsletters, record,
                to_subscribe, to_unsubscribe>>

run_vars == <<data, optin, found, vendor, user_data,
              exempt_from_confirmation, should_send_welcomes, return_code,
              exc, calls, bad_message_ids>>

task_vars == <<retries, runs, dispatches, task_message_id, bad_before>>

failure_vars == <<task, failed_tasks, replayed>>

registry_vars == <<newsletter_rows, newsletter_cache, observed, reader, writer>>

subscriber_vars == <<subscribers, issued>>

view_vars == <<request, response, api_users>>

conc_vars == <<procs, vendor_record, rejected, owed>>

other_vars == <<view_vars, conc_vars>>

store_vars == <<registry_vars, subscriber_vars, other_vars>>

\* the variables of the tasks
work_vars == <<parse_vars, cur_before, run_vars, task_vars, failure_vars>>

vars == <<pc, work_vars, store_vars>>

-----------------------------------------------------------------------------
(* Bounds *)

\* longest target list of a request
MaxTargets == 2

\* the last vendor call of a run that the vendor may fail
MaxFailAt == 2

-----------------------------------------------------------------------------
(* Constants of news/tasks.py *)

SUBSCRIBE == "SUBSCRIBE"
UNSUBSCRIBE == "UNSUBSCRIBE"
SET == "SET"

Types == {SUBSCRIBE, UNSUBSCRIBE, SET}

-----------------------------------------------------------------------------
(* Python values *)

\* cur_newsletters is None or a set of slugs; None is not the empty set.
None == [known |-> FALSE, slugs |-> {}]

Known(S) == [known |-> TRUE, slugs |-> S]

\* the value of the expression "v is None"
IsNone(v) == ~v.known

\* the dict d after d[k] = v
DictSet(d, k, v) == [x \in DOMAIN d \cup {k} |-> IF x = k THEN v ELSE d[x]]

Range(s) == {s[i] : i \in DOMAIN s}

\* the value of a key that a dict does not hold
NoKey == "<no key>"

\* every order in which Python may iterate the set S
Iterations(S) == {s \in [1..Cardinality(S) -> S] : Range(s) = S}

\* the lists of at most n elements of S
ListsUpTo(S, n) == UNION {[1..k -> S] : k \in 0..n}

-----------------------------------------------------------------------------
(* The Newsletter table (news/models.py) and the registry lookups of       *)
(* news/newsletters.py.                                                    *)

\* Vendor IDs for Firefox OS and Firefox & You (lines 83-84)
FFOS_VENDOR_ID == "FIREFOX_OS"
FFAY_VENDOR_ID == "MOZILLA_AND_YOU"

\* The rows of the Newsletter table: languages is the list language_list
\* yields, and order the field the rows are ordered by.
Newsletter_objects ==
    { [slug |-> "a", vendor_id |-> FFAY_VENDOR_ID, active |-> TRUE,
       requires_double_optin |-> TRUE, welcome |-> "Welcome",
       languages |-> <<"en-US", "fr">>, confirm_message |-> "", order |-> 1],
      [slug |-> "b", vendor_id |-> FFOS_VENDOR_ID, active |-> TRUE,
       requires_double_optin |-> FALSE, welcome |-> "FxOS_Welcome",
       languages |-> <<"en-US", "fr">>, confirm_message |-> "", order |-> 2],
      [slug |-> "c", vendor_id |-> "VEND_C", active |-> TRUE,
       requires_double_optin |-> TRUE, welcome |-> "Welcome",
       languages |-> <<"en-US">>, confirm_message |-> "Confirm_C",
       order |-> 3],
      [slug |-> "d", vendor_id |-> "VEND_D", active |-> FALSE,
       requires_double_optin |-> FALSE, welcome |-> "",
       languages |-> <<"en-US">>, confirm_message |-> "", order |-> 4] }

\* every slug a request may name: those of the table and one of no newsletter
Slugs == {nl.slug : nl \in Newsletter_objects} \cup {"x"}

\* the absent vendor field name (Python's None, which is falsy)
NoField == ""

\* all_slugs(): the slug of every newsletter of the registry
newsletter_slugs == {nl.slug : nl \in Newsletter_objects}

\* vendor_field_name(slug): None if the slug is unknown or the newsletter is
\* inactive
newsletter_field(slug) ==
    IF \E nl \in Newsletter_objects : nl.slug = slug /\ nl.active
    THEN (CHOOSE nl \in Newsletter_objects : nl.slug = slug).vendor_id
    ELSE NoField

\* the slugs that have a vendor field
MappedSlugs == {s \in Slugs : newsletter_field(s) # NoField}

-----------------------------------------------------------------------------
(* parse_newsletters *)

\* the flag set without the date of the decision
SetFlag_NoDate(rec, name, flag, day) == DictSet(rec, name \o "_FLG", flag)

\* record after record['%s_FLG' % name] = flag; record['%s_DATE' % name] = day
SetFlag(rec, name, flag, day) ==
    DictSet(DictSet(rec, name \o "_FLG", flag), name \o "_DATE", day)

\* SubscribeLoop taking an unknown current state for "already subscribed"
RECURSIVE SubscribeLoop_NoneIsPresent(_, _, _, _)
SubscribeLoop_NoneIsPresent(acc, nls, cur, day) ==
    IF nls = <<>> THEN acc
    ELSE LET nl == Head(nls)
             name == newsletter_field(nl)
             next == IF name # NoField /\ ~IsNone(cur) /\ nl \notin cur.slugs
                     THEN [record |-> SetFlag(acc.record, name, "Y", day),
                           to_subscribe |-> Append(acc.to_subscribe, nl),
                           to_unsubscribe |-> acc.to_unsubscribe]
                     ELSE acc
         IN SubscribeLoop_NoneIsPresent(next, Tail(nls), cur, day)

\* SubscribeLoop without the test of the vendor field name
RECURSIVE SubscribeLoop_NoNameTest(_, _, _, _)
SubscribeLoop_NoNameTest(acc, nls, cur, day) ==
    IF nls = <<>> THEN acc
    ELSE LET nl == Head(nls)
             name == newsletter_field(nl)
             next == IF IsNone(cur) \/ nl \notin cur.slugs
                     THEN [record |-> SetFlag(acc.record, name, "Y", day),
                           to_subscribe |-> Append(acc.to_subscribe, nl),
                           to_unsubscribe |-> acc.to_unsubscribe]
                     ELSE acc
         IN SubscribeLoop_NoNameTest(next, Tail(nls), cur, day)

\* lines 223-229: the loop over the targets under SUBSCRIBE or SET
RECURSIVE SubscribeLoop(_, _, _, _)
SubscribeLoop(acc, nls, cur, day) ==
    IF nls = <<>> THEN acc
    ELSE LET nl == Head(nls)
             name == newsletter_field(nl)
             next == IF name # NoField /\ (IsNone(cur) \/ nl \notin cur.slugs)
                     THEN [record |-> SetFlag(acc.record, name, "Y", day),
                           to_subscribe |-> Append(acc.to_subscribe, nl),
                           to_unsubscribe |-> acc.to_unsubscribe]
                     ELSE acc
         IN SubscribeLoop(next, Tail(nls), cur, day)

\* Unsubs taking the targets themselves, as under UNSUBSCRIBE
Unsubs_Targets(nls, cur) == Range(nls)

\* Unsubs with nothing to remove when the current state is unknown
Unsubs_NoFallback(nls, cur) ==
    IF ~IsNone(cur) THEN cur.slugs \ Range(nls) ELSE {}

\* lines 234-242: the set unsubs under SET
Unsubs(nls, cur) ==
    IF ~IsNone(cur)
    THEN cur.slugs \ Range(nls)
    ELSE LET subs == Range(nls)
             all == newsletter_slugs
         IN all \ subs

\* UnsubscribeLoop without the test of the current subscriptions
RECURSIVE UnsubscribeLoop_Always(_, _, _, _)
UnsubscribeLoop_Always(acc, unsubs, cur, day) ==
    IF unsubs = <<>> THEN acc
    ELSE LET nl == Head(unsubs)
             name == newsletter_field(nl)
             next == IF name # NoField
                     THEN [record |-> SetFlag(acc.record, name, "N", day),
                           to_subscribe |-> acc.to_subscribe,
                           to_unsubscribe |-> Append(acc.to_unsubscribe, nl)]
                     ELSE acc
         IN UnsubscribeLoop_Always(next, Tail(unsubs), cur, day)

\* UnsubscribeLoop removing nothing when the current state is unknown
RECURSIVE UnsubscribeLoop_KnownOnly(_, _, _, _)
UnsubscribeLoop_KnownOnly(acc, unsubs, cur, day) ==
    IF unsubs = <<>> THEN acc
    ELSE LET nl == Head(unsubs)
             name == newsletter_field(nl)
             next == IF name # NoField /\ ~IsNone(cur) /\ nl \in cur.slugs
                     THEN [record |-> SetFlag(acc.record, name, "N", day),
                           to_subscribe |-> acc.to_subscribe,
                           to_unsubscribe |-> Append(acc.to_unsubscribe, nl)]
                     ELSE acc
         IN UnsubscribeLoop_KnownOnly(next, Tail(unsubs), cur, day)

\* lines 247-253: the loop over unsubs
RECURSIVE UnsubscribeLoop(_, _, _, _)
UnsubscribeLoop(acc, unsubs, cur, day) ==
    IF unsubs = <<>> THEN acc
    ELSE LET nl == Head(unsubs)
             name == newsletter_field(nl)
             next == IF name # NoField /\ (IsNone(cur) \/ nl \in cur.slugs)
                     THEN [record |-> SetFlag(acc.record, name, "N", day),
                           to_subscribe |-> acc.to_subscribe,
                           to_unsubscribe |-> Append(acc.to_unsubscribe, nl)]
                     ELSE acc
         IN UnsubscribeLoop(next, Tail(unsubs), cur, day)

\* The orders in which the unsubscription loop may run: the target list as
\* given under UNSUBSCRIBE, any iteration order of the set under SET.
UnsubOrders(typ, nls, cur) ==
    IF typ = SET THEN Iterations(Unsubs(nls, cur))
    ELSE IF typ = UNSUBSCRIBE THEN {nls}
    ELSE {<<>>}

\* parse_newsletters writing the flag of every newsletter: 'N' for those
\* the user neither holds nor asks for
parse_newsletters_FullRecord(rec, typ, nls, cur, order, day) ==
    LET start == [record |-> rec, to_subscribe |-> <<>>, to_unsubscribe |-> <<>>]
        subbed == IF typ = SUBSCRIBE \/ typ = SET
                  THEN SubscribeLoop(start, nls, cur, day)
                  ELSE start
        parsed == IF typ = UNSUBSCRIBE \/ typ = SET
                  THEN UnsubscribeLoop(subbed, order, cur, day)
                  ELSE subbed
        others == {nl \in MappedSlugs :
                      /\ nl \notin Range(parsed.to_subscribe)
                      /\ IsNone(cur) \/ nl \notin cur.slugs}
        names == {newsletter_field(nl) \o "_FLG" : nl \in others}
    IN [parsed EXCEPT !.record =
           [k \in DOMAIN parsed.record \cup names |->
               IF k \in names THEN "N" ELSE parsed.record[k]]]

\* parse_newsletters(record, type, newsletters, cur_newsletters), with the
\* iteration order of unsubs and the day as further arguments; the result is
\* the record as mutated and the two returned lists.
parse_newsletters(rec, typ, nls, cur, order, day) ==
    LET start == [record |-> rec, to_subscribe |-> <<>>, to_unsubscribe |-> <<>>]
        subbed == IF typ = SUBSCRIBE \/ typ = SET
                  THEN SubscribeLoop(start, nls, cur, day)
                  ELSE start
    IN IF typ = UNSUBSCRIBE \/ typ = SET
       THEN UnsubscribeLoop(subbed, order, cur, day)
       ELSE subbed

-----------------------------------------------------------------------------
(* The vendor.  A run threads an execution state st through its vendor     *)
(* calls: calls is the log of the calls issued, exc the exception that is  *)
(* propagating ("" for none) and bad the content of BAD_MESSAGE_ID_CACHE.  *)
(* The vendor's behaviour in a run is v: the call numbered v.fail_at fails *)
(* with the message v.fail_kind (fail_at = 0: no call fails).              *)

NewsletterException == "NewsletterException"
BasketError == "BasketError"

\* settings.EXACTTARGET_DATA, _OPTIN_STAGE and _CONFIRMATION
EXACTTARGET_DATA == "EXACTTARGET_DATA"
EXACTTARGET_OPTIN_STAGE == "EXACTTARGET_OPTIN_STAGE"
EXACTTARGET_CONFIRMATION == "EXACTTARGET_CONFIRMATION"

\* Base message ID for confirmation email (line 36)
CONFIRMATION_MESSAGE == "confirmation_email"

\* the messages of the vendor's errors that send_message tells apart
InvalidCustomerKey == "Invalid Customer Key"
NoValidSubscribers == "There are no valid subscribers."
OtherError == "other"

FailKinds == {InvalidCustomerKey, NoValidSubscribers, OtherError}

\* urllib2's URLError, raised when the vendor cannot be reached
URLError == "URLError"

Start(bad) == [calls |-> <<>>, exc |-> "", bad |-> bad]

Raised(st) == st.exc # ""

\* whether the vendor fails the next call
FailsNext(st, v) == v.fail_at = Len(st.calls) + 1

\* apply_updates writing to the master table whatever the target
apply_updates_ToMaster(st, v, target_et, rec) ==
    IF Raised(st) THEN st
    ELSE LET call == [op |-> "add_record", target |-> EXACTTARGET_DATA,
                      rec |-> rec]
         IN [st EXCEPT !.calls = Append(@, call),
                       !.exc = IF ~FailsNext(st, v) THEN ""
                               ELSE IF v.fail_kind = URLError THEN URLError
                               ELSE NewsletterException]

\* apply_updates ignoring the vendor's error
apply_updates_Swallowed(st, v, target_et, rec) ==
    IF Raised(st) THEN st
    ELSE [st EXCEPT !.calls = Append(@, [op |-> "add_record",
                                         target |-> target_et, rec |-> rec])]

\* apply_updates(target_et, record), lines 506-515: add_record raises
\* NewsletterException when the vendor fails, URLError when it is not reached.
apply_updates(st, v, target_et, rec) ==
    IF Raised(st) THEN st
    ELSE LET call == [op |-> "add_record", target |-> target_et, rec |-> rec]
         IN [st EXCEPT !.calls = Append(@, call),
                       !.exc = IF ~FailsNext(st, v) THEN ""
                               ELSE IF v.fail_kind = URLError THEN URLError
                               ELSE NewsletterException]

\* send_message sending whatever BAD_MESSAGE_ID_CACHE holds
send_message_NoDenyList(st, v, message_id, format) ==
    IF Raised(st) THEN st
    ELSE LET call == [op |-> "trigger_send", target |-> message_id,
                      rec |-> [EMAIL_ADDRESS_ |-> "email", TOKEN |-> "token",
                               EMAIL_FORMAT_ |-> format]]
             sent == [st EXCEPT !.calls = Append(@, call)]
         IN IF ~FailsNext(st, v) THEN sent
            ELSE IF v.fail_kind = URLError
            THEN [sent EXCEPT !.exc = URLError]
            ELSE IF v.fail_kind = InvalidCustomerKey
            THEN [sent EXCEPT !.bad = @ \cup {message_id}, !.exc = BasketError]
            ELSE IF v.fail_kind = NoValidSubscribers
            THEN [sent EXCEPT !.exc = BasketError]
            ELSE [sent EXCEPT !.exc = NewsletterException]

\* send_message forgetting the message id the vendor does not know
send_message_NotRemembered(st, v, message_id, format) ==
    IF Raised(st) THEN st
    ELSE IF message_id \in st.bad THEN st
    ELSE LET call == [op |-> "trigger_send", target |-> message_id,
                      rec |-> [EMAIL_ADDRESS_ |-> "email", TOKEN |-> "token",
                               EMAIL_FORMAT_ |-> format]]
             sent == [st EXCEPT !.calls = Append(@, call)]
         IN IF ~FailsNext(st, v) THEN sent
            ELSE IF v.fail_kind = URLError
            THEN [sent EXCEPT !.exc = URLError]
            ELSE IF v.fail_kind \in {InvalidCustomerKey, NoValidSubscribers}
            THEN [sent EXCEPT !.exc = BasketError]
            ELSE [sent EXCEPT !.exc = NewsletterException]

\* send_message raising the vendor's error as it is, whatever its message
send_message_AllRetried(st, v, message_id, format) ==
    IF Raised(st) THEN st
    ELSE IF message_id \in st.bad THEN st
    ELSE LET call == [op |-> "trigger_send", target |-> message_id,
                      rec |-> [EMAIL_ADDRESS_ |-> "email", TOKEN |-> "token",
                               EMAIL_FORMAT_ |-> format]]
             sent == [st EXCEPT !.calls = Append(@, call)]
         IN IF ~FailsNext(st, v) THEN sent
            ELSE IF v.fail_kind = URLError
            THEN [sent EXCEPT !.exc = URLError]
            ELSE IF v.fail_kind = InvalidCustomerKey
            THEN [sent EXCEPT !.bad = @ \cup {message_id}, !.exc = BasketError]
            ELSE [sent EXCEPT !.exc = NewsletterException]

\* send_message(message_id, email, token, format), lines 518-557: a
\* URLError of trigger_send is not caught; a NewsletterException is raised
\* again as it is unless its message is one of the two told apart
send_message(st, v, message_id, format) ==
    IF Raised(st) THEN st
    ELSE IF message_id \in st.bad THEN st
    ELSE LET call == [op |-> "trigger_send", target |-> message_id,
                      rec |-> [EMAIL_ADDRESS_ |-> "email", TOKEN |-> "token",
                               EMAIL_FORMAT_ |-> format]]
             sent == [st EXCEPT !.calls = Append(@, call)]
         IN IF ~FailsNext(st, v) THEN sent
            ELSE IF v.fail_kind = URLError
            THEN [sent EXCEPT !.exc = URLError]
            ELSE IF v.fail_kind = InvalidCustomerKey
            THEN [sent EXCEPT !.bad = @ \cup {message_id}, !.exc = BasketError]
            ELSE IF v.fail_kind = NoValidSubscribers
            THEN [sent EXCEPT !.exc = BasketError]
            ELSE [sent EXCEPT !.exc = NewsletterException]

\* the language codes of the model
Langs == {"", "en", "en-US", "fr", "pt", "PT"}

\* lang.lower()[:2]
Lower2(lang) ==
    CASE lang = "" -> ""
      [] lang = "en" -> "en"
      [] lang = "en-US" -> "en"
      [] lang = "fr" -> "fr"
      [] lang = "pt" -> "pt"
      [] lang = "PT" -> "pt"

\* mogrify_message_id marking every id as the text version
mogrify_message_id_AlwaysText(message_id, lang, format) ==
    LET result == IF lang # "" THEN Lower2(lang) \o "_" \o message_id
                  ELSE message_id
    IN result \o "_T"

\* mogrify_message_id(message_id, lang, format), lines 560-575
mogrify_message_id(message_id, lang, format) ==
    LET result == IF lang # "" THEN Lower2(lang) \o "_" \o message_id
                  ELSE message_id
    IN IF format = "T" THEN result \o "_T" ELSE result

\* is_supported_newsletter_language(lang): whether some newsletter is
\* published in the language of that two-letter code
is_supported_newsletter_language(lang) ==
    \E nl \in Newsletter_objects :
        \E i \in DOMAIN nl.languages : Lower2(nl.languages[i]) = Lower2(lang)

\* the row of least order in the non-empty set rows
First(rows) == CHOOSE nl \in rows : \A other \in rows : nl.order <= other.order

\* send_confirm_notice sending the default confirmation message whatever
\* the newsletters
send_confirm_notice_DefaultOnly(st, v, lang, format, slugs) ==
    IF Raised(st) THEN st
    ELSE LET lang1 == IF lang = "" THEN "en" ELSE lang
         IN IF ~is_supported_newsletter_language(lang1)
            THEN [st EXCEPT !.exc = BasketError]
            ELSE send_message(st, v,
                              mogrify_message_id(CONFIRMATION_MESSAGE, lang1,
                                                 format),
                              format)

\* send_confirm_notice(email, token, lang, format, newsletter_slugs),
\* lines 578-608
send_confirm_notice(st, v, lang, format, slugs) ==
    IF Raised(st) THEN st
    ELSE LET lang1 == IF lang = "" THEN "en" ELSE lang
             custom == {nl \in Newsletter_objects :
                           nl.slug \in slugs /\ nl.confirm_message # ""}
             welcome == IF custom # {} THEN First(custom).confirm_message
                        ELSE CONFIRMATION_MESSAGE
         IN IF ~is_supported_newsletter_language(lang1)
            THEN [st EXCEPT !.exc = BasketError]
            ELSE send_message(st, v,
                              mogrify_message_id(welcome, lang1, format),
                              format)

\* user_data.get('lang', 'en')[:2].lower(), line 643
UserLangCode(ud) == IF ud.lang = NoKey THEN "en" ELSE Lower2(ud.lang)

\* welcomes_to_send with the Firefox & You newsletter left in the list
WelcomesToSend_KeepsFFAY(ud, slugs, format) ==
    LET selected == {nl \in Newsletter_objects : nl.slug \in slugs}
        lang_code == UserLangCode(ud)
        Code(nl) == IF \E i \in DOMAIN nl.languages :
                           Lower2(nl.languages[i]) = lang_code
                    THEN lang_code ELSE "en"
    IN {mogrify_message_id(nl.welcome, Code(nl), format) :
           nl \in {n \in selected : n.welcome # ""}}

\* welcomes_to_send in the user's language whatever the newsletter's are
WelcomesToSend_NoFallback(ud, slugs, format) ==
    LET selected == {nl \in Newsletter_objects : nl.slug \in slugs}
        kept == IF \E nl \in selected : nl.vendor_id = FFOS_VENDOR_ID
                THEN {nl \in selected : nl.vendor_id # FFAY_VENDOR_ID}
                ELSE selected
    IN {mogrify_message_id(nl.welcome, UserLangCode(ud), format) :
           nl \in {n \in kept : n.welcome # ""}}

\* lines 626-650: the set welcomes_to_send for the newsletters of the slugs
WelcomesToSend(ud, slugs, format) ==
    LET selected == {nl \in Newsletter_objects : nl.slug \in slugs}
        kept == IF \E nl \in selected : nl.vendor_id = FFOS_VENDOR_ID
                THEN {nl \in selected : nl.vendor_id # FFAY_VENDOR_ID}
                ELSE selected
        lang_code == UserLangCode(ud)
        Code(nl) == IF \E i \in DOMAIN nl.languages :
                           Lower2(nl.languages[i]) = lang_code
                    THEN lang_code ELSE "en"
    IN {mogrify_message_id(nl.welcome, Code(nl), format) :
           nl \in {n \in kept : n.welcome # ""}}

\* lines 653-657: the messages of the list sent one after the other
RECURSIVE SendAll(_, _, _, _)
SendAll(st, v, welcomes, format) ==
    IF welcomes = <<>> THEN st
    ELSE SendAll(send_message(st, v, Head(welcomes), format), v,
                 Tail(welcomes), format)

\* send_welcomes sending the welcome of each newsletter of the list, the
\* same message more than once when newsletters share it
send_welcomes_PerNewsletter(st, v, ud, slugs, format) ==
    IF Raised(st) \/ slugs = {} THEN {st}
    ELSE LET with == {nl \in Newsletter_objects :
                         nl.slug \in slugs /\ nl.welcome # ""}
         IN {SendAll(st, v,
                     [i \in DOMAIN order |->
                         CHOOSE w \in WelcomesToSend(ud, {order[i].slug},
                                                     format) : TRUE],
                     format) :
                order \in Iterations(with)}

\* send_welcomes(ud, newsletter_slugs, format), lines 611-657: the
\* execution states it may end in, one for each order in which the set
\* welcomes_to_send may be iterated
send_welcomes(st, v, ud, slugs, format) ==
    IF Raised(st) \/ slugs = {} THEN {st}
    ELSE {SendAll(st, v, order, format) :
             order \in Iterations(WelcomesToSend(ud, slugs, format))}

\* confirm_user confirming again a user who is confirmed
confirm_user_ConfirmsAgain(st, v, ud) ==
    IF Raised(st) THEN {st}
    ELSE IF ud.status = "none" THEN {[st EXCEPT !.exc = BasketError]}
    ELSE IF ud.status = "error"
    THEN {[st EXCEPT !.exc = NewsletterException]}
    ELSE IF ud.email = "" THEN {[st EXCEPT !.exc = BasketError]}
    ELSE LET written == apply_updates(st, v, EXACTTARGET_CONFIRMATION,
                                      [TOKEN |-> "token"])
         IN send_welcomes(written, v, ud, ud.newsletters.slugs,
                          IF ud.format = NoKey THEN "H"
                          ELSE ud.format)

\* confirm_user(token, ud), lines 675-697, from the point where user_data
\* is the one passed or, if None was passed, the one get_user_data returned
\* (status "none": there is none); the execution states it may end in
confirm_user(st, v, ud) ==
    IF Raised(st) THEN {st}
    ELSE IF ud.status = "none" THEN {[st EXCEPT !.exc = BasketError]}
    ELSE IF ud.status = "error"
    THEN {[st EXCEPT !.exc = NewsletterException]}
    ELSE IF ud.confirmed THEN {st}
    ELSE IF ud.email = "" THEN {[st EXCEPT !.exc = BasketError]}
    ELSE LET written == apply_updates(st, v, EXACTTARGET_CONFIRMATION,
                                      [TOKEN |-> "token"])
         IN send_welcomes(written, v, ud, ud.newsletters.slugs,
                          IF ud.format = NoKey THEN "H"
                          ELSE ud.format)

-----------------------------------------------------------------------------
(* update_user *)

\* Return codes for update_user (lines 341-345); NoCode is return_code
\* before its assignment.
UU_ALREADY_CONFIRMED == 1
UU_EXEMPT_PENDING == 2
UU_EXEMPT_NEW == 3
UU_MUST_CONFIRM_PENDING == 4
UU_MUST_CONFIRM_NEW == 5
NoCode == 0

\* the string gmttime() returns
GmtTime == "gmttime"

\* lines 371-376: the record before the optional fields
BaseRecord ==
    [k \in {"EMAIL_ADDRESS_", "TOKEN", "EMAIL_PERMISSION_STATUS_",
            "MODIFIED_DATE_"} |->
        CASE k = "EMAIL_ADDRESS_" -> "email"
          [] k = "TOKEN" -> "token"
          [] k = "EMAIL_PERMISSION_STATUS_" -> "I"
          [] k = "MODIFIED_DATE_" -> GmtTime]

\* lines 378-387: the record of the request.  The fields COUNTRY_ and
\* SOURCE_URL, copied from the request like LANGUAGE_ISO2 and read by no
\* decision, are left out.
RequestRecord(req) ==
    IF req.lang # NoKey THEN DictSet(BaseRecord, "LANGUAGE_ISO2", req.lang)
    ELSE BaseRecord

\* lines 399-408: the dictionary used when get_user_data finds no user
MinimalUserData(lang) ==
    [status |-> "ok", email |-> "email", master |-> FALSE, pending |-> FALSE,
     confirmed |-> FALSE, lang |-> lang, format |-> NoKey,
     newsletters |-> None]

\* line 425: 'T' if the format asked for starts with a T, 'H' otherwise
FormatChoice(format) == IF format \in {"T", "text", "TEXT"} THEN "T" ELSE "H"

\* line 434: req.get('newsletters', '').split(','), stripped; items is
\* the list of the comma-separated items, and the empty string splits into one
\* empty item
SplitNewsletters(items) == IF items = <<>> THEN <<"">> ELSE items

\* ExemptFromConfirmation taking any new subscription for an exemption
ExemptFromConfirmation_AnyNewsletter(bypass, subscribed) ==
    bypass \/ \E nl \in Newsletter_objects : nl.slug \in Range(subscribed)

\* lines 450-452
ExemptFromConfirmation(bypass, subscribed) ==
    bypass \/ \E nl \in Newsletter_objects :
                 nl.slug \in Range(subscribed) /\ ~nl.requires_double_optin

\* An outcome of the branches of lines 462-503: the execution state at the
\* end, the record as sent and the value of return_code, which stays
\* unassigned when the calls before its assignment raise.
Outcome(st, rec, code) ==
    [st |-> st, record |-> rec,
     return_code |-> IF Raised(st) THEN NoCode ELSE code]

\* ConfirmedBranch writing to the master table wherever the user is held
ConfirmedBranch_AlwaysMaster(st, v, ud, rec, fmt, subscribed, welcomes_wanted) ==
    LET applied == apply_updates(st, v, EXACTTARGET_DATA, rec)
        sent == IF welcomes_wanted
                THEN send_welcomes(applied, v, ud, Range(subscribed), fmt)
                ELSE {applied}
    IN {Outcome(s, rec, UU_ALREADY_CONFIRMED) : s \in sent}

\* ConfirmedBranch sending the welcomes of the newsletters the user holds,
\* as the promotion of confirm_user does
ConfirmedBranch_WelcomesHeld(st, v, ud, rec, fmt, subscribed, welcomes_wanted) ==
    LET target_et == IF ud.master THEN EXACTTARGET_DATA
                     ELSE EXACTTARGET_OPTIN_STAGE
        applied == apply_updates(st, v, target_et, rec)
        sent == IF welcomes_wanted
                THEN send_welcomes(applied, v, ud, ud.newsletters.slugs, fmt)
                ELSE {applied}
    IN {Outcome(s, rec, UU_ALREADY_CONFIRMED) : s \in sent}

\* lines 462-470: the user is already confirmed
ConfirmedBranch(st, v, ud, rec, fmt, subscribed, welcomes_wanted) ==
    LET target_et == IF ud.master THEN EXACTTARGET_DATA
                     ELSE EXACTTARGET_OPTIN_STAGE
        applied == apply_updates(st, v, target_et, rec)
        sent == IF welcomes_wanted
                THEN send_welcomes(applied, v, ud, Range(subscribed), fmt)
                ELSE {applied}
    IN {Outcome(s, rec, UU_ALREADY_CONFIRMED) : s \in sent}

\* ExemptPendingBranch promoting the user whether or not the record was
\* written: the promotion comes first
ExemptPendingBranch_PromoteFirst(st, v, ud, rec) ==
    {Outcome(apply_updates(s, v, EXACTTARGET_OPTIN_STAGE, rec), rec,
             UU_EXEMPT_PENDING) : s \in confirm_user(st, v, ud)}

\* lines 474-480: exempt from confirmation, pending
ExemptPendingBranch(st, v, ud, rec) ==
    LET applied == apply_updates(st, v, EXACTTARGET_OPTIN_STAGE, rec)
    IN {Outcome(s, rec, UU_EXEMPT_PENDING) :
           s \in confirm_user(applied, v, ud)}

\* ExemptNewBranch sending the record without the creation time
ExemptNewBranch_NoCreatedDate(st, v, ud, rec, fmt, subscribed, welcomes_wanted) ==
    LET applied == apply_updates(st, v, EXACTTARGET_DATA, rec)
        sent == IF welcomes_wanted
                THEN send_welcomes(applied, v, ud, Range(subscribed), fmt)
                ELSE {applied}
    IN {Outcome(s, rec, UU_EXEMPT_NEW) : s \in sent}

\* ExemptNewBranch sending the welcomes whatever the request asks
ExemptNewBranch_AlwaysWelcomes(st, v, ud, rec, fmt, subscribed, welcomes_wanted) ==
    LET rec1 == DictSet(rec, "CREATED_DATE_", GmtTime)
        applied == apply_updates(st, v, EXACTTARGET_DATA, rec1)
    IN {Outcome(s, rec1, UU_EXEMPT_NEW) :
           s \in send_welcomes(applied, v, ud, Range(subscribed), fmt)}

\* lines 481-488: exempt from confirmation, brand new user
ExemptNewBranch(st, v, ud, rec, fmt, subscribed, welcomes_wanted) ==
    LET rec1 == DictSet(rec, "CREATED_DATE_", GmtTime)
        applied == apply_updates(st, v, EXACTTARGET_DATA, rec1)
        sent == IF welcomes_wanted
                THEN send_welcomes(applied, v, ud, Range(subscribed), fmt)
                ELSE {applied}
    IN {Outcome(s, rec1, UU_EXEMPT_NEW) : s \in sent}

\* MustConfirmCode with the two codes exchanged
MustConfirmCode_Swapped(ud) ==
    IF ud.pending THEN UU_MUST_CONFIRM_NEW ELSE UU_MUST_CONFIRM_PENDING

\* lines 491-498: return_code of a user who must confirm
MustConfirmCode(ud) ==
    IF ud.pending THEN UU_MUST_CONFIRM_PENDING ELSE UU_MUST_CONFIRM_NEW

\* MustConfirmBranch creating the record of a new user without the identity
\* fields
MustConfirmBranch_NoIdentity(st, v, ud, rec, email_lang, fmt, subscribed) ==
    LET rec1 == IF ud.pending THEN rec
                ELSE DictSet(rec, "CREATED_DATE_", GmtTime)
        applied == apply_updates(st, v, EXACTTARGET_OPTIN_STAGE, rec1)
        sent == send_confirm_notice(applied, v, email_lang, fmt,
                                    Range(subscribed))
    IN {[st |-> sent, record |-> rec1, return_code |-> MustConfirmCode(ud)]}

\* MustConfirmBranch sending the welcomes of the new subscriptions after the
\* confirmation notice
MustConfirmBranch_Welcomes(st, v, ud, rec, email_lang, fmt, subscribed) ==
    LET rec1 == IF ud.pending THEN rec
                ELSE DictSet(DictSet(DictSet(rec,
                         "CREATED_DATE_", GmtTime),
                         "SubscriberKey", rec["TOKEN"]),
                         "EmailAddress", rec["EMAIL_ADDRESS_"])
        applied == apply_updates(st, v, EXACTTARGET_OPTIN_STAGE, rec1)
        noticed == send_confirm_notice(applied, v, email_lang, fmt,
                                       Range(subscribed))
    IN {[st |-> sent, record |-> rec1, return_code |-> MustConfirmCode(ud)] :
           sent \in send_welcomes(noticed, v, ud, Range(subscribed), fmt)}

\* lines 489-502: the user must confirm; return_code is assigned before the
\* vendor is called
MustConfirmBranch(st, v, ud, rec, email_lang, fmt, subscribed) ==
    LET rec1 == IF ud.pending THEN rec
                ELSE DictSet(DictSet(DictSet(rec,
                         "CREATED_DATE_", GmtTime),
                         "SubscriberKey", rec["TOKEN"]),
                         "EmailAddress", rec["EMAIL_ADDRESS_"])
        applied == apply_updates(st, v, EXACTTARGET_OPTIN_STAGE, rec1)
        sent == send_confirm_notice(applied, v, email_lang, fmt,
                                    Range(subscribed))
    IN {[st |-> sent, record |-> rec1, return_code |-> MustConfirmCode(ud)]}

\* lines 462-503: the vendor calls and the return code; the outcomes are
\* those the run may end in
Branches(st, v, ud, rec, email_lang, fmt, subscribed, exempt, welcomes) ==
    IF ud.confirmed
    THEN ConfirmedBranch(st, v, ud, rec, fmt, subscribed, welcomes)
    ELSE IF exempt
    THEN IF ud.pending
         THEN ExemptPendingBranch(st, v, ud, rec)
         ELSE ExemptNewBranch(st, v, ud, rec, fmt, subscribed,
                              welcomes)
    ELSE MustConfirmBranch(st, v, ud, rec, email_lang, fmt, subscribed)

\* get_user_data returning None: no record of the user at the vendor
NotFound ==
    [status |-> "none", email |-> "", master |-> FALSE, pending |-> FALSE,
     confirmed |-> FALSE, lang |-> "", format |-> NoKey, newsletters |-> None]

\* the result of a run that raises before parse_newsletters is reached
Aborted(st, rec, res) ==
    [st |-> st, record |-> rec, return_code |-> NoCode, user_data |-> res,
     newsletters |-> <<>>, cur_newsletters |-> None, to_subscribe |-> <<>>,
     to_unsubscribe |-> <<>>, exempt |-> FALSE, should_send_welcomes |-> FALSE]

\* update_user(req, email, token, created, type, bypass), lines 349-503.
\* res is what get_user_data(token=token) returns, bad the deny-list at the
\* start, order the iteration order of unsubs and day the current day.  The
\* result is the set of the outcomes the run may have.
update_user(req, typ, bypass, res, v, bad, order, day) ==
    LET record0 == RequestRecord(req)
        lang0 == IF req.lang # NoKey THEN req.lang ELSE ""
        user_data0 == IF res.status = "none" THEN MinimalUserData(lang0)
                      ELSE res
        user_data1 == IF lang0 # "" THEN [user_data0 EXCEPT !.lang = lang0]
                      ELSE user_data0
        lang1 == IF lang0 # "" THEN lang0 ELSE user_data0.lang
        fmt == IF req.format # NoKey THEN FormatChoice(req.format)
               ELSE IF user_data1.format # NoKey THEN user_data1.format
               ELSE "H"
        record1 == IF req.format # NoKey
                   THEN DictSet(record0, "EMAIL_FORMAT_", fmt)
                   ELSE record0
        nls == SplitNewsletters(req.newsletters)
        cur == user_data1.newsletters
        parsed == parse_newsletters(record1, typ, nls, cur, order, day)
        exempt == ExemptFromConfirmation(bypass, parsed.to_subscribe)
        welcomes == (req.trigger_welcome \in {NoKey, "Y"}) /\ typ = SUBSCRIBE
    IN IF res.status \notin {"none", "ok"}
       THEN {Aborted([Start(bad) EXCEPT !.exc = NewsletterException],
                     record0, res)}
       ELSE {[st |-> b.st, record |-> b.record,
              return_code |-> b.return_code, user_data |-> user_data1,
              newsletters |-> nls, cur_newsletters |-> cur,
              to_subscribe |-> parsed.to_subscribe,
              to_unsubscribe |-> parsed.to_unsubscribe, exempt |-> exempt,
              should_send_welcomes |-> welcomes] :
                b \in Branches(Start(bad), v, user_data1, parsed.record,
                               lang1, fmt, parsed.to_subscribe, exempt,
                               welcomes)}

-----------------------------------------------------------------------------
(* The specification of parse_newsletters alone: it is called on any       *)
(* action, target list and current state, its diff is applied to the       *)
(* current state, and it is called again.                                  *)

Dates == {"2014-06-01", "2014-06-02"}

\* the values cur_newsletters takes: None, or the set of the slugs whose
\* vendor flag the user record holds
CurrentStates == {None} \cup {Known(S) : S \in SUBSET MappedSlugs}

\* no run of update_user has taken place
NoRequest ==
    /\ data = [lang |-> NoKey, format |-> NoKey, newsletters |-> <<>>,
               trigger_welcome |-> NoKey]
    /\ optin = FALSE
    /\ user_data = NotFound
    /\ exempt_from_confirmation = FALSE
    /\ should_send_welcomes = FALSE
    /\ return_code = NoCode
    /\ exc = ""
    /\ calls = <<>>
    /\ bad_message_ids = {}

\* no task has been dispatched
NoTask ==
    /\ retries = 0
    /\ runs = 0
    /\ dispatches = 0
    /\ task_message_id = ""
    /\ bad_before = {}
    /\ task = [name |-> "", args |-> <<>>]
    /\ failed_tasks = {}
    /\ replayed = <<>>

\* python's None for the cache of the registry
NoCache == [filled |-> FALSE, data |-> {}]

\* no Newsletter and no Subscriber is stored, and nobody reads the registry
NoStore ==
    /\ newsletter_rows = {}
    /\ newsletter_cache = NoCache
    /\ observed = <<>>
    /\ reader = [pc |-> "idle", data |-> {}]
    /\ writer = "idle"
    /\ subscribers = {}
    /\ issued = {}
    /\ request = <<>>
    /\ response = <<>>
    /\ api_users = {}
    /\ procs = <<>>
    /\ vendor_record = <<>>
    /\ rejected = {}
    /\ owed = {}

InitDiff ==
    /\ pc = "input"
    /\ today \in Dates
    /\ type \in Types
    /\ newsletters \in ListsUpTo(Slugs, MaxTargets)
    /\ cur_newsletters \in CurrentStates
    /\ record = BaseRecord
    /\ to_subscribe = <<>>
    /\ to_unsubscribe = <<>>
    /\ cur_before = None
    /\ found = NotFound
    /\ vendor = [fail_at |-> 0, fail_kind |-> OtherError]
    /\ NoRequest
    /\ NoTask
    /\ NoStore

\* a call of parse_newsletters
ParseNewsletters ==
    /\ pc \in {"input", "applied"}
    /\ \E order \in UnsubOrders(type, newsletters, cur_newsletters) :
         LET r == parse_newsletters(BaseRecord, type, newsletters,
                                    cur_newsletters, order, today)
         IN /\ record' = r.record
            /\ to_subscribe' = r.to_subscribe
            /\ to_unsubscribe' = r.to_unsubscribe
    /\ pc' = IF pc = "input" THEN "parsed" ELSE "reparsed"
    /\ UNCHANGED <<today, type, newsletters, cur_newsletters, cur_before,
                   run_vars, task_vars, failure_vars, store_vars>>

\* the subscriptions the vendor holds once the diff is written: the new flags
\* 'Y' are added to the current ones and the flags 'N' removed
ApplyDiff ==
    /\ pc = "parsed"
    /\ cur_newsletters' =
         Known((cur_newsletters.slugs \cup Range(to_subscribe))
               \ Range(to_unsubscribe))
    /\ cur_before' = cur_newsletters
    /\ pc' = "applied"
    /\ UNCHANGED <<today, type, newsletters, record, to_subscribe,
                   to_unsubscribe, run_vars, task_vars, failure_vars,
                   store_vars>>

NextDiff == ParseNewsletters \/ ApplyDiff

SpecDiff == InitDiff /\ [][NextDiff]_vars

-----------------------------------------------------------------------------
(* The specification of update_user: one run of the task on any request.   *)
(* The initial states are the states of the vendor: the record, if any, it *)
(* holds of the user and the way it is going to answer the calls.          *)

\* the requests: with neither language nor format, or with both
Requests ==
    {[lang |-> p[1], format |-> p[2], newsletters |-> nls,
      trigger_welcome |-> w] :
        p \in {<<NoKey, NoKey>>, <<"PT", "text">>, <<"en-US", "html">>},
        nls \in ListsUpTo(Slugs, MaxTargets),
        w \in {NoKey, "Y", "N"}}

\* get_user_data reporting an error
LookupError == [NotFound EXCEPT !.status = "error"]

\* the records get_user_data returns for a user the vendor holds: in the
\* master table (confirmed), or in the opt-in table, confirmed or pending
KnownUsers ==
    {[status |-> "ok", email |-> "email", master |-> t[1], pending |-> t[2],
      confirmed |-> t[3], lang |-> p[1], format |-> p[2],
      newsletters |-> Known(S)] :
        t \in {<<TRUE, FALSE, TRUE>>, <<FALSE, FALSE, TRUE>>,
               <<FALSE, TRUE, FALSE>>},
        p \in {<<"fr", "T">>},
        S \in SUBSET MappedSlugs}

Lookups == {NotFound, LookupError} \cup KnownUsers

\* the vendor's behaviours
VendorBehaviours ==
    {[fail_at |-> 0, fail_kind |-> OtherError]}
    \cup [fail_at : 1..MaxFailAt, fail_kind : FailKinds]

Init ==
    /\ pc = "idle"
    /\ today = "2014-06-01"
    /\ type = SUBSCRIBE
    /\ newsletters = <<>>
    /\ cur_newsletters = None
    /\ record = BaseRecord
    /\ to_subscribe = <<>>
    /\ to_unsubscribe = <<>>
    /\ cur_before = None
    /\ found \in Lookups
    /\ vendor \in VendorBehaviours
    /\ NoRequest
    /\ NoTask
    /\ NoStore

\* a run of the task update_user
UpdateUser ==
    /\ pc = "idle"
    /\ \E d \in Requests, t \in Types, o \in BOOLEAN :
         \E order \in UnsubOrders(t, SplitNewsletters(d.newsletters),
                                  found.newsletters) :
           \E out \in update_user(d, t, o, found, vendor, bad_message_ids,
                                  order, today) :
             /\ data' = d
             /\ type' = t
             /\ optin' = o
             /\ newsletters' = out.newsletters
             /\ cur_newsletters' = out.cur_newsletters
             /\ record' = out.record
             /\ to_subscribe' = out.to_subscribe
             /\ to_unsubscribe' = out.to_unsubscribe
             /\ user_data' = out.user_data
             /\ exempt_from_confirmation' = out.exempt
             /\ should_send_welcomes' = out.should_send_welcomes
             /\ return_code' = out.return_code
             /\ exc' = out.st.exc
             /\ calls' = out.st.calls
             /\ bad_message_ids' = out.st.bad
    /\ pc' = "done"
    /\ UNCHANGED <<today, cur_before, found, vendor, task_vars, failure_vars,
                   store_vars>>

Next == UpdateUser

Spec == Init /\ [][Next]_vars

-----------------------------------------------------------------------------
(* The specification of a task under et_task: send_recovery_message_task   *)
(* is dispatched, a worker executes it, and the executions that end in an  *)
(* error worth retrying are rescheduled.  BAD_MESSAGE_ID_CACHE outlives    *)
(* the executions and the tasks.                                           *)

\* the tasks dispatched for the address
MaxDispatches == 2

\* longest list of slugs send_welcomes is called with
MaxSelected == 3

\* ETTask.max_retries (line 105)
max_retries == 6

\* line 79
RECOVERY_MESSAGE_ID == "recovery_message"

\* the states of a task
PENDING == "PENDING"
RETRY == "RETRY"
SUCCESS == "SUCCESS"
FAILURE == "FAILURE"

\* et_task retrying without a limit
et_task_Unlimited(e, n) ==
    IF e = "" THEN [status |-> SUCCESS, retries |-> n]
    ELSE IF e \in {URLError, NewsletterException}
    THEN [status |-> RETRY, retries |-> n + 1]
    ELSE [status |-> FAILURE, retries |-> n]

\* et_task losing the task it should reschedule
et_task_Dropped(e, n) ==
    IF e = "" THEN [status |-> SUCCESS, retries |-> n]
    ELSE IF e \in {URLError, NewsletterException}
    THEN [status |-> "DROPPED", retries |-> n]
    ELSE [status |-> FAILURE, retries |-> n]

\* et_task, lines 172-185: what becomes of the task when the execution at
\* request.retries = n ends with the exception e ("" for none).  retry()
\* reschedules the task with one more retry, and raises the exception
\* instead when that exceeds max_retries; any other exception fails the task.
et_task(e, n) ==
    IF e = "" THEN [status |-> SUCCESS, retries |-> n]
    ELSE IF e \in {URLError, NewsletterException}
    THEN IF n + 1 > max_retries
         THEN [status |-> FAILURE, retries |-> n]
         ELSE [status |-> RETRY, retries |-> n + 1]
    ELSE [status |-> FAILURE, retries |-> n]

\* on_failure recording nothing
on_failure_NotRecorded(rows, e, task_id, t) == rows

\* ETTask.on_failure(exc, task_id, args, kwargs, einfo), lines 122-147: the
\* rows of FailedTask after it; the row also holds the time, the keyword
\* arguments (none here) and the traceback.
on_failure(rows, e, task_id, t) ==
    rows \cup {[task_id |-> task_id, name |-> t.name, args |-> t.args,
                exc |-> e]}

\* FailedTask.retry keeping the row
retry_RowKept(rows, row) ==
    [task |-> [name |-> row.name, args |-> row.args], rows |-> rows]

\* FailedTask.retry(), models.py lines 217-224: the task queued, a new task
\* of the same name on the stored arguments, and the rows left once the
\* row is deleted; filtered_args leaves arguments that are strings as they
\* are.
retry(rows, row) ==
    [task |-> [name |-> row.name, args |-> row.args], rows |-> rows \ {row}]

\* send_recovery_message_task(email), lines 739-757; res is what
\* get_user_data(email=email, sync_data=True) returns.  The result is the
\* execution state at the end and the message id computed ("" if none).
send_recovery_message_task(res, v, bad) ==
    IF res.status = "none" THEN [st |-> Start(bad), message_id |-> ""]
    ELSE LET lang == IF res.lang \in {NoKey, ""} THEN "en" ELSE res.lang
             format == IF res.format \in {NoKey, ""} THEN "H" ELSE res.format
             message_id == mogrify_message_id(RECOVERY_MESSAGE_ID, lang,
                                              format)
         IN [st |-> send_message(Start(bad), v, message_id, format),
             message_id |-> message_id]

\* what get_user_data returns for the address: None, or the user's data with
\* or without a language and a format
RecoveryLookups ==
    {NotFound}
    \cup {[status |-> "ok", email |-> "email", master |-> TRUE,
           pending |-> FALSE, confirmed |-> TRUE, lang |-> l, format |-> f,
           newsletters |-> Known({})] :
             l \in Langs \cup {NoKey}, f \in {NoKey, "", "H", "T"}}

\* the vendor's answers to the one call of an execution
TaskAnswers ==
    {[fail_at |-> 0, fail_kind |-> OtherError]}
    \cup [fail_at : {1}, fail_kind : FailKinds \cup {URLError}]

InitTask ==
    /\ pc = PENDING
    /\ today = "2014-06-01"
    /\ type = SUBSCRIBE
    /\ newsletters = <<>>
    /\ cur_newsletters = None
    /\ record = BaseRecord
    /\ to_subscribe = <<>>
    /\ to_unsubscribe = <<>>
    /\ cur_before = None
    /\ found \in RecoveryLookups
    /\ vendor = [fail_at |-> 0, fail_kind |-> OtherError]
    /\ data = [lang |-> NoKey, format |-> NoKey, newsletters |-> <<>>,
               trigger_welcome |-> NoKey]
    /\ optin = FALSE
    /\ user_data = NotFound
    /\ exempt_from_confirmation = FALSE
    /\ should_send_welcomes = FALSE
    /\ return_code = NoCode
    /\ exc = ""
    /\ calls = <<>>
    /\ bad_message_ids \in {{}, {"en_recovery_message"}}
    /\ retries = 0
    /\ runs = 0
    /\ dispatches = 1
    /\ task_message_id = ""
    /\ bad_before = {}
    /\ task = [name |-> "news.tasks.send_recovery_message_task",
               args |-> <<"email">>]
    /\ failed_tasks = {}
    /\ replayed = <<>>
    /\ NoStore

\* a worker executes the task
RunTask ==
    /\ pc \in {PENDING, RETRY}
    /\ \E v \in TaskAnswers :
         LET out == send_recovery_message_task(found, v, bad_message_ids)
             after == et_task(out.st.exc, retries)
         IN /\ vendor' = v
            /\ calls' = out.st.calls
            /\ exc' = out.st.exc
            /\ bad_message_ids' = out.st.bad
            /\ task_message_id' = out.message_id
            /\ retries' = after.retries
            /\ pc' = after.status
            /\ failed_tasks' =
                   IF after.status = FAILURE
                   THEN on_failure(failed_tasks, out.st.exc, dispatches, task)
                   ELSE failed_tasks
    /\ bad_before' = bad_message_ids
    /\ runs' = runs + 1
    /\ UNCHANGED <<parse_vars, cur_before, data, optin, found, user_data,
                   exempt_from_confirmation, should_send_welcomes,
                   return_code, dispatches, task, replayed, store_vars>>

\* the task is dispatched again for the same address once the one before is
\* over
Dispatch ==
    /\ pc \in {SUCCESS, FAILURE}
    /\ dispatches < MaxDispatches
    /\ dispatches' = dispatches + 1
    /\ pc' = PENDING
    /\ retries' = 0
    /\ runs' = 0
    /\ UNCHANGED <<parse_vars, cur_before, run_vars, task_message_id,
                   bad_before, failure_vars, store_vars>>

\* an operator replays a row of FailedTask: the task is queued anew and the
\* row deleted
Replay ==
    /\ pc \in {SUCCESS, FAILURE}
    /\ dispatches < MaxDispatches
    /\ \E row \in failed_tasks :
         LET r == retry(failed_tasks, row)
         IN /\ task' = r.task
            /\ failed_tasks' = r.rows
            /\ replayed' = <<[row |-> row, task_id |-> dispatches + 1]>>
                             \o replayed
    /\ dispatches' = dispatches + 1
    /\ pc' = PENDING
    /\ retries' = 0
    /\ runs' = 0
    /\ UNCHANGED <<parse_vars, cur_before, run_vars, task_message_id,
                   bad_before, store_vars>>

NextTask == RunTask \/ Dispatch \/ Replay

SpecTask == InitTask /\ [][NextTask]_vars

\* a worker takes every task of the queue in the end
SpecTaskFair == SpecTask /\ WF_vars(RunTask)

-----------------------------------------------------------------------------
(* send_welcomes called on its own (news/tasks.py, lines 611-657) *)

\* the users whose welcomes are sent: with or without a language
WelcomeUsers ==
    {[MinimalUserData(l) EXCEPT !.format = f] :
        l \in Langs \cup {NoKey}, f \in {"H", "T"}}

\* the vendor's answers to the calls of send_welcomes
WelcomeAnswers ==
    {[fail_at |-> 0, fail_kind |-> OtherError]}
    \cup [fail_at : 1..MaxFailAt, fail_kind : FailKinds \cup {URLError}]

InitWelcomes ==
    /\ pc = "called"
    /\ today = "2014-06-01"
    /\ type = SUBSCRIBE
    /\ newsletters \in ListsUpTo(Slugs, MaxSelected)
    /\ cur_newsletters = None
    /\ record = BaseRecord
    /\ to_subscribe = <<>>
    /\ to_unsubscribe = <<>>
    /\ cur_before = None
    /\ found = NotFound
    /\ vendor \in WelcomeAnswers
    /\ data = [lang |-> NoKey, format |-> NoKey, newsletters |-> <<>>,
               trigger_welcome |-> NoKey]
    /\ optin = FALSE
    /\ user_data \in WelcomeUsers
    /\ exempt_from_confirmation = FALSE
    /\ should_send_welcomes = TRUE
    /\ return_code = NoCode
    /\ exc = ""
    /\ calls = <<>>
    /\ bad_message_ids \in {{}, {"en_Welcome"}}
    /\ NoTask
    /\ NoStore

\* send_welcomes(user_data, newsletters, format) runs
SendWelcomes ==
    /\ pc = "called"
    /\ \E out \in send_welcomes(Start(bad_message_ids), vendor, user_data,
                                Range(newsletters), user_data.format) :
         /\ calls' = out.calls
         /\ exc' = out.exc
         /\ bad_message_ids' = out.bad
    /\ bad_before' = bad_message_ids
    /\ pc' = "sent"
    /\ UNCHANGED <<parse_vars, cur_before, data, optin, found, vendor,
                   user_data, exempt_from_confirmation, should_send_welcomes,
                   return_code, retries, runs, dispatches, task_message_id,
                   failure_vars, store_vars>>

NextWelcomes == SendWelcomes

SpecWelcomes == InitWelcomes /\ [][NextWelcomes]_vars

-----------------------------------------------------------------------------
(* The Newsletter table and the cache of the registry (news/models.py,     *)
(* lines 113-142; the readers of the cache are those of                    *)
(* news/newsletters.py, which the tests of news/tests/test_views.py,       *)
(* lines 550-604, exercise).                                               *)

\* no task runs and no request is handled
NoWork ==
    /\ today = "2014-06-01"
    /\ type = SUBSCRIBE
    /\ newsletters = <<>>
    /\ cur_newsletters = None
    /\ record = BaseRecord
    /\ to_subscribe = <<>>
    /\ to_unsubscribe = <<>>
    /\ cur_before = None
    /\ found = NotFound
    /\ vendor = [fail_at |-> 0, fail_kind |-> OtherError]
    /\ NoRequest
    /\ NoTask

\* the slugs and the vendor ids of the newsletters an editor stores
StoredSlugs == {"slug", "slug2"}
VendorIds == {"VEND1", "VEND2"}

\* the languages an editor types, with and without spaces
TypedLanguages == {"en-US,fr", "en-US, fr "}

\* self.languages.replace(" ", ""), line 116
StripSpaces(languages) ==
    CASE languages = "en-US,fr" -> "en-US,fr"
      [] languages = "en-US, fr " -> "en-US,fr"

\* the newsletters an editor may save
Editions == [slug : StoredSlugs, vendor_id : VendorIds,
             languages : TypedLanguages]

\* clear_newsletter_cache(): the cache forgets its data
clear_newsletter_cache == NoCache

\* Newsletter.save forgetting to clear the cache
Newsletter_save_CacheKept(table, cache, nl) ==
    [rows |-> {row \in table : row.slug # nl.slug}
                 \cup {[nl EXCEPT !.languages = StripSpaces(@)]},
     cache |-> cache]

\* Newsletter.save(), lines 113-125: the languages lose their spaces, the
\* row of the slug is created or replaced, and then the cache is cleared
Newsletter_save(table, cache, nl) ==
    [rows |-> {row \in table : row.slug # nl.slug}
                 \cup {[nl EXCEPT !.languages = StripSpaces(@)]},
     cache |-> clear_newsletter_cache]

\* nl.delete() and post_newsletter_delete, lines 138-142: the row is
\* deleted, and the signal sent after it clears the cache
Newsletter_delete(table, cache, slug) ==
    [rows |-> {row \in table : row.slug # slug},
     cache |-> clear_newsletter_cache]

\* _get_newsletters_data(): the definitions generated from the table
get_newsletters_data(table) == table

\* _newsletters(): the cached definitions, generated and cached first when
\* the cache holds none
newsletters_read(table, cache) ==
    IF cache.filled THEN [data |-> cache.data, cache |-> cache]
    ELSE [data |-> get_newsletters_data(table),
          cache |-> [filled |-> TRUE, data |-> get_newsletters_data(table)]]

\* newsletter_fields(): the vendor ids of the definitions
newsletter_fields(definitions) == {nl.vendor_id : nl \in definitions}

\* the results of the last two reads, latest first
Observe(definitions) ==
    IF observed = <<>> THEN <<definitions>>
    ELSE <<definitions, observed[1]>>

InitRegistry ==
    /\ pc = "idle"
    /\ NoWork
    /\ NoStore

\* an editor creates or updates a newsletter
Save ==
    /\ \E nl \in Editions :
         LET saved == Newsletter_save(newsletter_rows, newsletter_cache, nl)
         IN /\ newsletter_rows' = saved.rows
            /\ newsletter_cache' = saved.cache
    /\ pc' = "saved"
    /\ UNCHANGED <<work_vars, observed, reader, writer, subscriber_vars,
                   other_vars>>

\* an editor deletes a newsletter
Delete ==
    /\ \E row \in newsletter_rows :
         LET left == Newsletter_delete(newsletter_rows, newsletter_cache,
                                       row.slug)
         IN /\ newsletter_rows' = left.rows
            /\ newsletter_cache' = left.cache
    /\ pc' = "deleted"
    /\ UNCHANGED <<work_vars, observed, reader, writer, subscriber_vars,
                   other_vars>>

\* a caller reads the registry
Read ==
    /\ LET got == newsletters_read(newsletter_rows, newsletter_cache)
       IN /\ observed' = Observe(got.data)
          /\ newsletter_cache' = got.cache
    /\ pc' = "read"
    /\ UNCHANGED <<work_vars, newsletter_rows, reader, writer,
                   subscriber_vars, other_vars>>

NextRegistry == Save \/ Delete \/ Read

SpecRegistry == InitRegistry /\ [][NextRegistry]_vars

\* The same writes and reads step by step, a reader running while a writer
\* does: the writer changes the table and then clears the cache; the reader
\* asks the cache and, on a miss, queries the table and then fills the cache.

\* the rows of the table once the writer has saved or deleted a row
WrittenRows ==
    {Newsletter_save(newsletter_rows, newsletter_cache, nl).rows :
        nl \in Editions}
    \cup {Newsletter_delete(newsletter_rows, newsletter_cache, row.slug).rows :
             row \in newsletter_rows}

\* super(Newsletter, self).save(), line 119, or the deletion of the row
WriteRow ==
    /\ writer = "idle"
    /\ newsletter_rows' \in WrittenRows
    /\ writer' = "written"
    /\ pc' = "written"
    /\ UNCHANGED <<work_vars, newsletter_cache, observed, reader,
                   subscriber_vars, other_vars>>

\* clear_newsletter_cache(), lines 125 and 142, after which the write is over
ClearCache ==
    /\ writer = "written"
    /\ newsletter_cache' = clear_newsletter_cache
    /\ writer' = "idle"
    /\ pc' = "cleared"
    /\ UNCHANGED <<work_vars, newsletter_rows, observed, reader,
                   subscriber_vars, other_vars>>

\* the reader asks the cache: a hit is returned, a miss has the data
\* generated
CacheGet ==
    /\ reader.pc = "idle"
    /\ IF newsletter_cache.filled
       THEN /\ observed' = Observe(newsletter_cache.data)
            /\ pc' = "hit"
            /\ UNCHANGED reader
       ELSE /\ reader' = [pc |-> "miss", data |-> {}]
            /\ pc' = "miss"
            /\ UNCHANGED observed
    /\ UNCHANGED <<work_vars, newsletter_rows, newsletter_cache, writer,
                   subscriber_vars, other_vars>>

\* the reader generates the data from the table
Generate ==
    /\ reader.pc = "miss"
    /\ reader' = [pc |-> "generated",
                  data |-> get_newsletters_data(newsletter_rows)]
    /\ pc' = "generated"
    /\ UNCHANGED <<work_vars, newsletter_rows, newsletter_cache, observed,
                   writer, subscriber_vars, other_vars>>

\* the reader stores the data it generated in the cache and returns it
CacheSet ==
    /\ reader.pc = "generated"
    /\ newsletter_cache' = [filled |-> TRUE, data |-> reader.data]
    /\ observed' = Observe(reader.data)
    /\ reader' = [pc |-> "idle", data |-> {}]
    /\ pc' = "filled"
    /\ UNCHANGED <<work_vars, newsletter_rows, writer, subscriber_vars,
                   other_vars>>

NextRegistryConc == WriteRow \/ ClearCache \/ CacheGet \/ Generate \/ CacheSet

SpecRegistryConc == InitRegistry /\ [][NextRegistryConc]_vars

-----------------------------------------------------------------------------
(* The Subscriber table (news/models.py, lines 14-43) and the tasks that   *)
(* look a user up at the vendor (news/tasks.py, lines 257-312)             *)

FXACCOUNT_WELCOME == "FxAccounts_Welcome"

Emails == {"e1", "e2"}
\* the tokens callers and the vendor know, and those uuid4 makes up
KnownTokens == {"t1", "t2"}
FreshTokens == {"u1"}
Tokens == KnownTokens \cup FreshTokens

\* the Firefox Account ids, "" for none
FxaIds == {"", "fxa1"}

\* python's None for the user
NoUser == [known |-> FALSE, email |-> "", format |-> "", country |-> "",
           lang |-> "", token |-> ""]

\* what ext.get_record does for a key: it raises
\* NewsletterNoResultsException, it raises another error, or it returns the
\* fields of the user's record, some of them empty
RecordAnswers(email) ==
    {[kind |-> "no results", EMAIL_ADDRESS_ |-> "", EMAIL_FORMAT_ |-> "",
      COUNTRY_ |-> "", LANGUAGE_ISO2 |-> "", TOKEN |-> ""],
     [kind |-> NewsletterException, EMAIL_ADDRESS_ |-> "",
      EMAIL_FORMAT_ |-> "", COUNTRY_ |-> "", LANGUAGE_ISO2 |-> "",
      TOKEN |-> ""]}
    \cup [kind : {"record"}, EMAIL_ADDRESS_ : {email},
          EMAIL_FORMAT_ : {"", "T"}, COUNTRY_ : {""},
          LANGUAGE_ISO2 : {"", "fr"}, TOKEN : KnownTokens]

\* get_external_user_data raising when the vendor has no record
get_external_user_data_Raises(answer) ==
    IF answer.kind # "record"
    THEN [exc |-> NewsletterException, user |-> NoUser]
    ELSE [exc |-> "",
          user |-> [known |-> TRUE, email |-> answer.EMAIL_ADDRESS_,
                    format |-> IF answer.EMAIL_FORMAT_ = "" THEN "H"
                               ELSE answer.EMAIL_FORMAT_,
                    country |-> answer.COUNTRY_,
                    lang |-> answer.LANGUAGE_ISO2,
                    token |-> answer.TOKEN]]

\* get_external_user_data(email=, token=), lines 257-281: None when the
\* vendor has no results; any other exception of get_record goes up
get_external_user_data(answer) ==
    IF answer.kind = "no results" THEN [exc |-> "", user |-> NoUser]
    ELSE IF answer.kind # "record"
    THEN [exc |-> answer.kind, user |-> NoUser]
    ELSE [exc |-> "",
          user |-> [known |-> TRUE, email |-> answer.EMAIL_ADDRESS_,
                    format |-> IF answer.EMAIL_FORMAT_ = "" THEN "H"
                               ELSE answer.EMAIL_FORMAT_,
                    country |-> answer.COUNTRY_,
                    lang |-> answer.LANGUAGE_ISO2,
                    token |-> answer.TOKEN]]

\* the row of the email in the table, which holds one
RowOf(table, email) == CHOOSE sub \in table : sub.email = email

\* self.get_or_create(email=email, defaults=defaults): the row found, or
\* the row created with the defaults
get_or_create(table, email, defaults) ==
    IF \E sub \in table : sub.email = email
    THEN [sub |-> RowOf(table, email), created |-> FALSE, rows |-> table]
    ELSE LET sub == [email |-> email, token |-> defaults.token,
                     fxa_id |-> defaults.fxa_id]
         IN [sub |-> sub, created |-> TRUE, rows |-> table \cup {sub}]

\* sub.save() of a row changed: it replaces the row of its email
SaveRow(table, sub) == {s \in table : s.email # sub.email} \cup {sub}

\* SubscriberManager.get_and_sync(email, token, fxa_id), lines 14-33: the
\* rows of the table after it
get_and_sync(table, email, token, fxa_id) ==
    LET got == get_or_create(table, email,
                             [token |-> token, fxa_id |-> fxa_id])
    IN IF got.created THEN got.rows
       ELSE SaveRow(got.rows,
                    [got.sub EXCEPT !.token = token,
                                    !.fxa_id = IF fxa_id # "" THEN fxa_id
                                               ELSE @])

\* update_fxa_info(email, lang, fxa_id), lines 284-312: the rows of the
\* table and the execution state after it; answer is what the vendor
\* answers to the lookup and uuid the token uuid4 would give a new row
update_fxa_info(table, st, v, answer, email, lang, fxa_id, uuid) ==
    LET looked == get_external_user_data(answer)
        user == looked.user
        base == [EMAIL_ADDRESS_ |-> email, FXA_ID |-> fxa_id,
                 MODIFIED_DATE_ |-> GmtTime]
    IN IF looked.exc # ""
       THEN [rows |-> table, st |-> [st EXCEPT !.exc = looked.exc]]
       ELSE IF user.known
       THEN LET rec1 == DictSet(base, "TOKEN", user.token)
                rec2 == IF user.lang = ""
                        THEN DictSet(rec1, "LANGUAGE_ISO2", lang)
                        ELSE rec1
                sent == send_message(
                            st, v,
                            mogrify_message_id(FXACCOUNT_WELCOME, lang,
                                               user.format),
                            user.format)
            IN [rows |-> get_and_sync(table, email, user.token, fxa_id),
                st |-> apply_updates(sent, v, EXACTTARGET_DATA, rec2)]
       ELSE LET got == get_or_create(table, email,
                                     [token |-> uuid, fxa_id |-> fxa_id])
                rows == IF got.created THEN got.rows
                        ELSE SaveRow(got.rows,
                                     [got.sub EXCEPT !.fxa_id = fxa_id])
                rec == DictSet(DictSet(DictSet(base, "TOKEN", got.sub.token),
                                       "LANGUAGE_ISO2", lang),
                               "SOURCE_URL", "https://accounts.firefox.com")
                sent == send_message(
                            st, v,
                            mogrify_message_id(FXACCOUNT_WELCOME, lang, "H"),
                            "H")
            IN [rows |-> rows,
                st |-> apply_updates(sent, v, EXACTTARGET_DATA, rec)]

\* the tokens uuid4 may still make up: those no row was created with
UnusedTokens == FreshTokens \ {i.token : i \in issued}

\* the token uuid4 makes up, "" once the model has none left; a row is
\* created only while it has one
NextUuid == IF UnusedTokens = {} THEN "" ELSE CHOOSE t \in UnusedTokens : TRUE

\* the vendor's answers to the calls of update_fxa_info
FxaAnswers ==
    {[fail_at |-> 0, fail_kind |-> OtherError],
     [fail_at |-> 1, fail_kind |-> OtherError],
     [fail_at |-> 2, fail_kind |-> URLError]}

\* the rows created by a call, with the token each was created with
Created(rows) ==
    {[email |-> sub.email, token |-> sub.token] :
        sub \in {s \in rows : \A old \in subscribers : old.email # s.email}}

InitSubscribers ==
    /\ pc = "idle"
    /\ NoWork
    /\ NoStore

\* a caller syncs the Subscriber of an email with a token
GetAndSync ==
    /\ \E email \in Emails, token \in KnownTokens, fxa_id \in FxaIds :
         LET rows == get_and_sync(subscribers, email, token, fxa_id)
         IN /\ subscribers' = rows
            /\ issued' = issued \cup Created(rows)
    /\ pc' = "synced"
    /\ UNCHANGED <<work_vars, registry_vars, other_vars>>

\* the task update_fxa_info runs once
UpdateFxaInfo ==
    /\ \E email \in Emails, v \in FxaAnswers :
         \E answer \in RecordAnswers(email) :
           LET out == update_fxa_info(subscribers,
                                      Start(bad_message_ids), v, answer,
                                      email, "fr", "fxa1", NextUuid)
           IN /\ \A sub \in out.rows : sub.token # ""
              /\ subscribers' = out.rows
              /\ issued' = issued \cup Created(out.rows)
              /\ vendor' = v
              /\ calls' = out.st.calls
              /\ exc' = out.st.exc
              /\ bad_message_ids' = out.st.bad
              /\ pc' = et_task(out.st.exc, 0).status
    /\ UNCHANGED <<parse_vars, cur_before, data, optin, found, user_data,
                   exempt_from_confirmation, should_send_welcomes,
                   return_code, task_vars, failure_vars, registry_vars,
                   other_vars>>

NextSubscribers == GetAndSync \/ UpdateFxaInfo

SpecSubscribers == InitSubscribers /\ [][NextSubscribers]_vars

-----------------------------------------------------------------------------
(* The operations that look a user up, when the vendor holds no record of  *)
(* the user: get_external_user_data, and the tasks update_user and         *)
(* send_recovery_message_task, for which get_user_data returns None        *)

\* the user data of a record the vendor returned, None without one
LookedUp(res) ==
    IF ~res.user.known THEN NotFound
    ELSE [status |-> "ok", email |-> res.user.email, master |-> FALSE,
          pending |-> FALSE, confirmed |-> FALSE, lang |-> res.user.lang,
          format |-> res.user.format, newsletters |-> None]

InitLookup ==
    /\ pc = "idle"
    /\ NoWork
    /\ NoStore

\* get_external_user_data(email=email) is called
GetExternalUserData ==
    /\ pc = "idle"
    /\ \E email \in Emails :
         \E answer \in RecordAnswers(email) :
           LET res == get_external_user_data(answer)
           IN /\ record' = answer
              /\ found' = LookedUp(res)
              /\ exc' = res.exc
              /\ task' = [name |-> "get_external_user_data",
                          args |-> <<email>>]
    /\ pc' = "looked up"
    /\ UNCHANGED <<today, type, newsletters, cur_newsletters, to_subscribe,
                   to_unsubscribe, cur_before, data, optin, vendor, user_data,
                   exempt_from_confirmation, should_send_welcomes,
                   return_code, calls, bad_message_ids, task_vars,
                   failed_tasks, replayed, store_vars>>

\* a worker executes the task update_user for a token the vendor does not
\* know
UpdateUnknownUser ==
    /\ pc = "idle"
    /\ \E d \in Requests, t \in Types, o \in BOOLEAN, v \in VendorBehaviours :
         \E order \in UnsubOrders(t, SplitNewsletters(d.newsletters),
                                  NotFound.newsletters) :
           \E out \in update_user(d, t, o, NotFound, v, bad_message_ids,
                                  order, today) :
             LET after == et_task(out.st.exc, retries)
                 name == [name |-> "news.tasks.update_user", args |-> <<>>]
             IN /\ data' = d
                /\ type' = t
                /\ optin' = o
                /\ vendor' = v
                /\ newsletters' = out.newsletters
                /\ cur_newsletters' = out.cur_newsletters
                /\ record' = out.record
                /\ to_subscribe' = out.to_subscribe
                /\ to_unsubscribe' = out.to_unsubscribe
                /\ user_data' = out.user_data
                /\ exempt_from_confirmation' = out.exempt
                /\ should_send_welcomes' = out.should_send_welcomes
                /\ return_code' = out.return_code
                /\ exc' = out.st.exc
                /\ calls' = out.st.calls
                /\ bad_message_ids' = out.st.bad
                /\ task' = name
                /\ retries' = after.retries
                /\ pc' = after.status
                /\ failed_tasks' =
                       IF after.status = FAILURE
                       THEN on_failure(failed_tasks, out.st.exc, 1, name)
                       ELSE failed_tasks
    /\ runs' = runs + 1
    /\ dispatches' = 1
    /\ UNCHANGED <<today, cur_before, found, task_message_id, bad_before,
                   replayed, store_vars>>

\* a worker executes the task send_recovery_message_task for an address
\* the vendor does not know
RecoverUnknownUser ==
    /\ pc = "idle"
    /\ \E email \in Emails, v \in TaskAnswers :
         LET out == send_recovery_message_task(NotFound, v, bad_message_ids)
             after == et_task(out.st.exc, retries)
             name == [name |-> "news.tasks.send_recovery_message_task",
                      args |-> <<email>>]
         IN /\ vendor' = v
            /\ exc' = out.st.exc
            /\ calls' = out.st.calls
            /\ bad_message_ids' = out.st.bad
            /\ task_message_id' = out.message_id
            /\ task' = name
            /\ retries' = after.retries
            /\ pc' = after.status
            /\ failed_tasks' =
                   IF after.status = FAILURE
                   THEN on_failure(failed_tasks, out.st.exc, 1, name)
                   ELSE failed_tasks
    /\ runs' = runs + 1
    /\ dispatches' = 1
    /\ UNCHANGED <<parse_vars, cur_before, data, optin, found, user_data,
                   exempt_from_confirmation, should_send_welcomes,
                   return_code, bad_before, replayed, store_vars>>

NextLookup == GetExternalUserData \/ UpdateUnknownUser \/ RecoverUnknownUser

SpecLookup == InitLookup /\ [][NextLookup]_vars

-----------------------------------------------------------------------------
(* The subscribe view (news/views.py), as the tests of                     *)
(* news/tests/test_views.py, lines 240-475, describe it, with              *)
(* APIUser.is_valid (news/models.py, lines 145-162)                        *)

\* the API keys a request may carry and the rows of APIUser
ApiKeys == {"k1", "k2", "k3"}
ApiUsers == {[api_key |-> "k1", enabled |-> TRUE],
             [api_key |-> "k2", enabled |-> FALSE]}

\* the Subscriber that may exist before the request
Row0 == [email |-> "e1", token |-> "t1", fxa_id |-> ""]

\* APIUser.is_valid taking the key of a disabled user
is_valid_Disabled(users, api_key) == \E u \in users : u.api_key = api_key

\* APIUser.is_valid(api_key), models.py lines 159-161
is_valid(users, api_key) ==
    \E u \in users : u.api_key = api_key /\ u.enabled

\* the parameters of a request
SubscribeParameters ==
    [email : Emails,
     posted : BOOLEAN,
     newsletters : ListsUpTo(Slugs, MaxTargets),
     lang : {NoKey, "", "en", "55"},
     optin : {NoKey, "Y", "y", "N"},
     sync : {NoKey, "Y"},
     api_key : {NoKey} \cup ApiKeys,
     ssl : BOOLEAN]

\* value.upper() == 'Y' for the values of the model
IsYes(value) == value \in {"Y", "y"}

\* the language codes the view accepts; a blank one is accepted too
language_code_is_valid(lang) == lang \in {"", "en", "fr"}

\* the requests of the model: the parameters posted, NoKey for those left
\* out (posted tells whether newsletters is), and whether the request came
\* over SSL
SubscribeRequests ==
    {req \in SubscribeParameters : req.posted \/ req.newsletters = <<>>}

\* the response of the view
Response(status, desc) == [status |-> status, desc |-> desc]

\* no task is dispatched
NoDispatch == [name |-> "", args |-> <<>>]

\* the request rejected: nothing is stored and nothing dispatched
Rejected(table, status, desc) ==
    [response |-> Response(status, desc), rows |-> table,
     dispatched |-> NoDispatch]

\* the view creating the Subscriber before it validates the request
subscribe_CreatesFirst(req, users, table, uuid) ==
    LET got == get_or_create(table, req.email,
                             [token |-> uuid, fxa_id |-> ""])
    IN IF ~req.posted \/ req.newsletters = <<>>
       THEN [Rejected(table, 400, "newsletters is missing")
                EXCEPT !.rows = got.rows]
       ELSE [response |-> Response(200, "ok"), rows |-> got.rows,
             dispatched |->
                 [name |-> "news.tasks.update_user",
                  args |-> <<req.email, got.sub.token, SUBSCRIBE, FALSE>>]]

\* subscribe(request): the response, the rows of Subscriber after it and
\* the task dispatched; uuid is the token uuid4 would give a new row
subscribe(req, users, table, uuid) ==
    LET has_key == req.api_key # NoKey /\ is_valid(users, req.api_key)
        flag == IsYes(req.optin) /\ req.ssl /\ has_key
        got == get_or_create(table, req.email,
                             [token |-> uuid, fxa_id |-> ""])
    IN IF ~req.posted \/ req.newsletters = <<>>
       THEN Rejected(table, 400, "newsletters is missing")
       ELSE IF IsYes(req.sync) /\ ~req.ssl
       THEN Rejected(table, 401, "BASKET_SSL_REQUIRED")
       ELSE IF IsYes(req.sync) /\ ~has_key
       THEN Rejected(table, 401, "BASKET_AUTH_ERROR")
       ELSE IF \E i \in DOMAIN req.newsletters :
                   req.newsletters[i] \notin newsletter_slugs
       THEN Rejected(table, 400, "invalid newsletter")
       ELSE IF req.lang # NoKey /\ ~language_code_is_valid(req.lang)
       THEN Rejected(table, 400, "invalid language")
       ELSE [response |-> Response(200, "ok"), rows |-> got.rows,
             dispatched |->
                 [name |-> "news.tasks.update_user",
                  args |-> <<req.email, got.sub.token, SUBSCRIBE, flag>>]]

InitSubscribe ==
    /\ pc = "idle"
    /\ NoWork
    /\ newsletter_rows = {}
    /\ newsletter_cache = NoCache
    /\ observed = <<>>
    /\ reader = [pc |-> "idle", data |-> {}]
    /\ writer = "idle"
    /\ subscribers \in {{}, {Row0}}
    /\ issued = {[email |-> sub.email, token |-> sub.token] :
                    sub \in subscribers}
    /\ request = <<>>
    /\ response = <<>>
    /\ api_users \in SUBSET ApiUsers
    /\ procs = <<>>
    /\ vendor_record = <<>>
    /\ rejected = {}
    /\ owed = {}

\* the view answers a request
Subscribe ==
    /\ pc = "idle"
    /\ \E req \in SubscribeRequests :
         LET out == subscribe(req, api_users, subscribers, NextUuid)
         IN /\ request' = req
            /\ response' = out.response
            /\ subscribers' = out.rows
            /\ issued' = issued \cup Created(out.rows)
            /\ task' = out.dispatched
    /\ pc' = "responded"
    /\ UNCHANGED <<parse_vars, cur_before, run_vars, task_vars, failed_tasks,
                   replayed, registry_vars, api_users, conc_vars>>

NextSubscribe == Subscribe

SpecSubscribe == InitSubscribe /\ [][NextSubscribe]_vars

-----------------------------------------------------------------------------
(* The user's record at the vendor and the attempts of one update_user     *)
(* task.  add_record creates or updates the row of the table it names and  *)
(* touches the fields of the record it is given only; get_user_data reads  *)
(* the master table, then the opt-in table.  Each attempt of the task      *)
(* reads the record anew, and the vendor fails the attempts it likes.      *)

\* a table without a row of the user
NoRow == [known |-> FALSE, slugs |-> {}, lang |-> "", format |-> NoKey]

\* the tables of a user the vendor does not know
NoRecord == [master |-> NoRow, optin |-> NoRow, confirmation |-> FALSE]

\* the newsletters whose flag the record sets to the value flag
Flagged(rec, flag) ==
    {s \in MappedSlugs :
        /\ newsletter_field(s) \o "_FLG" \in DOMAIN rec
        /\ rec[newsletter_field(s) \o "_FLG"] = flag}

\* add_record replacing the row by the record it is given
upsert_Replaces(row, rec) ==
    [known |-> TRUE,
     slugs |-> Flagged(rec, "Y"),
     lang |-> IF "LANGUAGE_ISO2" \in DOMAIN rec THEN rec["LANGUAGE_ISO2"]
              ELSE "",
     format |-> IF "EMAIL_FORMAT_" \in DOMAIN rec THEN rec["EMAIL_FORMAT_"]
                ELSE NoKey]

\* the row after add_record: the fields of the record are written, the
\* others are left as they are
upsert(row, rec) ==
    [known |-> TRUE,
     slugs |-> (row.slugs \cup Flagged(rec, "Y")) \ Flagged(rec, "N"),
     lang |-> IF "LANGUAGE_ISO2" \in DOMAIN rec THEN rec["LANGUAGE_ISO2"]
              ELSE row.lang,
     format |-> IF "EMAIL_FORMAT_" \in DOMAIN rec THEN rec["EMAIL_FORMAT_"]
                ELSE row.format]

\* the tables after the call add_record(target, ...) of apply_updates
add_record(tables, call) ==
    CASE call.target = EXACTTARGET_DATA ->
             [tables EXCEPT !.master = upsert(@, call.rec)]
      [] call.target = EXACTTARGET_OPTIN_STAGE ->
             [tables EXCEPT !.optin = upsert(@, call.rec)]
      [] call.target = EXACTTARGET_CONFIRMATION ->
             [tables EXCEPT !.confirmation = TRUE]

\* the tables after the calls of a run, the i-th of which the vendor failed
\* (0: none)
RECURSIVE Written(_, _, _)
Written(tables, done, failed) ==
    IF done = <<>> THEN tables
    ELSE LET before == Written(tables, SubSeq(done, 1, Len(done) - 1),
                               failed)
             call == done[Len(done)]
         IN IF call.op = "add_record" /\ Len(done) # failed
            THEN add_record(before, call)
            ELSE before

\* what a row of the table reads as
UserOf(row, in_master) ==
    [status |-> "ok", email |-> "email", master |-> in_master,
     pending |-> ~in_master, confirmed |-> in_master, lang |-> row.lang,
     format |-> row.format, newsletters |-> Known(row.slugs)]

\* get_user_data(token=token): the user of the master table, else the
\* pending user of the opt-in table, else None
get_user_data(tables) ==
    IF tables.master.known THEN UserOf(tables.master, TRUE)
    ELSE IF tables.optin.known THEN UserOf(tables.optin, FALSE)
    ELSE NotFound

\* the records of the vendor at the dispatch of the task
RetryRecords ==
    {NoRecord,
     [NoRecord EXCEPT !.master = [known |-> TRUE, slugs |-> {}, lang |-> "fr",
                                  format |-> "T"]],
     [NoRecord EXCEPT !.optin = [known |-> TRUE, slugs |-> {"a"},
                                 lang |-> "fr", format |-> "T"]]}

\* the requests of the task
RetryRequests ==
    {[lang |-> l, format |-> NoKey, newsletters |-> nls,
      trigger_welcome |-> NoKey] :
        l \in {NoKey, "en-US"},
        nls \in {<<"a">>, <<"b">>, <<"c">>, <<"a", "b">>}}

\* what the vendor does to an attempt: it answers every call, or fails one
\* with an error worth retrying or with a fatal one
RetryAnswers ==
    {[fail_at |-> 0, fail_kind |-> OtherError]}
    \cup [fail_at : 1..(MaxFailAt + 1),
          fail_kind : {OtherError, URLError, NoValidSubscribers}]

\* the send the attempt failed at after it wrote the record: its message id
FailedSend(done, e, v) ==
    IF /\ e \in {URLError, NewsletterException}
       /\ v.fail_at = Len(done)
       /\ Len(done) >= 2
       /\ done[Len(done)].op = "trigger_send"
    THEN {done[Len(done)].target}
    ELSE {}

InitRetry ==
    /\ pc = PENDING
    /\ today = "2014-06-01"
    /\ type = SUBSCRIBE
    /\ newsletters = <<>>
    /\ cur_newsletters = None
    /\ record = BaseRecord
    /\ to_subscribe = <<>>
    /\ to_unsubscribe = <<>>
    /\ cur_before = None
    /\ found = NotFound
    /\ vendor = [fail_at |-> 0, fail_kind |-> OtherError]
    /\ data \in RetryRequests
    /\ optin \in BOOLEAN
    /\ user_data = NotFound
    /\ exempt_from_confirmation = FALSE
    /\ should_send_welcomes = FALSE
    /\ return_code = NoCode
    /\ exc = ""
    /\ calls = <<>>
    /\ bad_message_ids = {}
    /\ retries = 0
    /\ runs = 0
    /\ dispatches = 1
    /\ task_message_id = ""
    /\ bad_before = {}
    /\ task = [name |-> "news.tasks.update_user", args |-> <<"email">>]
    /\ failed_tasks = {}
    /\ replayed = <<>>
    /\ newsletter_rows = {}
    /\ newsletter_cache = NoCache
    /\ observed = <<>>
    /\ reader = [pc |-> "idle", data |-> {}]
    /\ writer = "idle"
    /\ subscribers = {}
    /\ issued = {}
    /\ request = <<>>
    /\ response = <<>>
    /\ api_users = {}
    /\ procs = <<>>
    /\ vendor_record \in RetryRecords
    /\ rejected = {}
    /\ owed = {}

\* a worker executes an attempt of the task: the lookup, which the vendor
\* may fail, the run of update_user on what it returns, and the decision of
\* et_task
AttemptUpdateUser ==
    /\ pc \in {PENDING, RETRY}
    /\ \E v \in RetryAnswers, answered \in BOOLEAN :
         LET res == IF answered THEN get_user_data(vendor_record)
                    ELSE LookupError
         IN \E out \in update_user(data, SUBSCRIBE, optin, res, v,
                                   bad_message_ids, <<>>, today) :
              LET after == et_task(out.st.exc, retries)
              IN /\ found' = res
                 /\ vendor' = v
                 /\ newsletters' = out.newsletters
                 /\ cur_newsletters' = out.cur_newsletters
                 /\ record' = out.record
                 /\ to_subscribe' = out.to_subscribe
                 /\ to_unsubscribe' = out.to_unsubscribe
                 /\ user_data' = out.user_data
                 /\ exempt_from_confirmation' = out.exempt
                 /\ should_send_welcomes' = out.should_send_welcomes
                 /\ return_code' = out.return_code
                 /\ exc' = out.st.exc
                 /\ calls' = out.st.calls
                 /\ bad_message_ids' = out.st.bad
                 /\ vendor_record' = Written(vendor_record, out.st.calls,
                                             v.fail_at)
                 /\ owed' = owed \cup FailedSend(out.st.calls, out.st.exc, v)
                 /\ retries' = after.retries
                 /\ pc' = after.status
                 /\ failed_tasks' =
                        IF after.status = FAILURE
                        THEN on_failure(failed_tasks, out.st.exc, dispatches,
                                        task)
                        ELSE failed_tasks
    /\ runs' = runs + 1
    /\ UNCHANGED <<today, type, cur_before, data, optin, dispatches,
                   task_message_id, bad_before, task, replayed,
                   registry_vars, subscriber_vars, view_vars, procs,
                   rejected>>

NextRetry == AttemptUpdateUser

SpecRetry == InitRetry /\ [][NextRetry]_vars

-----------------------------------------------------------------------------
(* The task confirm_user, called with the user's data or with None.        *)

\* the users with no email at the vendor
NoEmailUsers == {[u EXCEPT !.email = ""] : u \in KnownUsers}

\* what get_user_data may return to confirm_user, and what may be passed
ConfirmLookups == Lookups \cup NoEmailUsers

InitConfirm ==
    /\ pc = "idle"
    /\ today = "2014-06-01"
    /\ type = SUBSCRIBE
    /\ newsletters = <<>>
    /\ cur_newsletters = None
    /\ record = BaseRecord
    /\ to_subscribe = <<>>
    /\ to_unsubscribe = <<>>
    /\ cur_before = None
    /\ found \in ConfirmLookups
    /\ vendor \in VendorBehaviours
    /\ NoRequest
    /\ NoTask
    /\ NoStore

\* a run of the task confirm_user(token, user_data): lines 675-678 take the
\* user_data passed, or the one get_user_data returns when None is passed
ConfirmUser ==
    /\ pc = "idle"
    /\ \E passed \in {NotFound, LookupError} \cup
                     {u \in KnownUsers \cup NoEmailUsers :
                         u.newsletters.slugs \subseteq {"a"}} :
         LET ud == IF passed.status = "none" THEN found ELSE passed
         IN \E st \in confirm_user(Start(bad_message_ids), vendor, ud) :
              /\ user_data' = ud
              /\ exc' = st.exc
              /\ calls' = st.calls
              /\ bad_message_ids' = st.bad
    /\ pc' = "done"
    /\ UNCHANGED <<parse_vars, cur_before, data, optin, found, vendor,
                   exempt_from_confirmation, should_send_welcomes,
                   return_code, task_vars, failure_vars, store_vars>>

NextConfirm == ConfirmUser

SpecConfirm == InitConfirm /\ [][NextConfirm]_vars

-----------------------------------------------------------------------------
(* Two update_user tasks of the same user run at the same time.  Each      *)
(* reads the user's record once, at line 394, decides on what it read, and *)
(* issues its vendor calls one by one; the calls of the two interleave.    *)

\* a task that has not started
IdleTask(d, o) ==
    [pc |-> "idle", data |-> d, optin |-> o, found |-> NotFound,
     to_subscribe |-> <<>>, wrote |-> "", todo |-> <<>>]

\* the target lists of the two tasks: newsletters of the registry, no
\* newsletter in both
DisjointTargets ==
    {t \in (ListsUpTo(MappedSlugs, MaxTargets) \ {<<>>})
           \X (ListsUpTo(MappedSlugs, MaxTargets) \ {<<>>}) :
        Range(t[1]) \cap Range(t[2]) = {}}

\* the records of the vendor before the two tasks
ConcurrentRecords ==
    RetryRecords
    \cup {[NoRecord EXCEPT !.master = [known |-> TRUE, slugs |-> {"c"},
                                       lang |-> "fr", format |-> "T"]]}

InitConcurrent ==
    /\ pc = "running"
    /\ NoWork
    /\ newsletter_rows = {}
    /\ newsletter_cache = NoCache
    /\ observed = <<>>
    /\ reader = [pc |-> "idle", data |-> {}]
    /\ writer = "idle"
    /\ subscribers = {}
    /\ issued = {}
    /\ request = <<>>
    /\ response = <<>>
    /\ api_users = {}
    /\ \E t \in DisjointTargets, o \in BOOLEAN :
         procs = [i \in 1..2 |->
                     IdleTask([lang |-> NoKey, format |-> NoKey,
                               newsletters |-> t[i],
                               trigger_welcome |-> NoKey],
                              o /\ i = 1)]
    /\ vendor_record \in ConcurrentRecords
    /\ rejected = {}
    /\ owed = {}

\* a task reads the user's record (line 394) and decides on its calls
\* (lines 397-503)
ReadRecord ==
    /\ \E i \in DOMAIN procs :
         /\ procs[i].pc = "idle"
         /\ LET res == get_user_data(vendor_record)
            IN \E out \in update_user(procs[i].data, SUBSCRIBE,
                                      procs[i].optin, res, vendor,
                                      bad_message_ids, <<>>, today) :
                 procs' = [procs EXCEPT
                              ![i] = [pc |-> IF out.st.calls = <<>>
                                             THEN "done" ELSE "calling",
                                      data |-> @.data,
                                      optin |-> @.optin,
                                      found |-> res,
                                      to_subscribe |-> out.to_subscribe,
                                      wrote |-> IF out.st.calls = <<>> THEN ""
                                                ELSE out.st.calls[1].target,
                                      todo |-> out.st.calls]]
    /\ UNCHANGED <<pc, work_vars, registry_vars, subscriber_vars, view_vars,
                   vendor_record, rejected, owed>>

\* the vendor executes the next call of a task
VendorCall ==
    /\ \E i \in DOMAIN procs :
         /\ procs[i].pc = "calling"
         /\ LET call == Head(procs[i].todo)
            IN /\ vendor_record' = IF call.op = "add_record"
                                   THEN add_record(vendor_record, call)
                                   ELSE vendor_record
               /\ calls' = Append(calls, call)
               /\ procs' = [procs EXCEPT
                               ![i].todo = Tail(@),
                               ![i].pc = IF Tail(procs[i].todo) = <<>>
                                         THEN "done" ELSE "calling"]
    /\ UNCHANGED <<pc, parse_vars, cur_before, data, optin, found, vendor,
                   user_data, exempt_from_confirmation, should_send_welcomes,
                   return_code, exc, bad_message_ids, task_vars,
                   failure_vars, registry_vars, subscriber_vars, view_vars,
                   rejected, owed>>

NextConcurrent == ReadRecord \/ VendorCall

SpecConcurrent == InitConcurrent /\ [][NextConcurrent]_vars

-----------------------------------------------------------------------------
(* Concurrent calls of send_message.  A call reads BAD_MESSAGE_ID_CACHE,   *)
(* asks the vendor to send, and on 'Invalid Customer Key' sets the id in   *)
(* the cache before it raises; the steps of the calls interleave.          *)

\* the workers that call send_message at the same time
MaxSenders == 2

\* the message ids of the calls
MessageIds == {"en_FxOS_Welcome", "en_confirmation_email"}

\* the vendor's answers to trigger_send
SendAnswers == {"ok", URLError} \cup FailKinds

\* line 549 taking every failure for an unknown message id
IsInvalidId_AnyFailure(answer) == answer # "ok"

\* line 549: 'Invalid Customer Key' in e.message
IsInvalidId(answer) == answer = InvalidCustomerKey

\* lines 546-557: the exception send_message ends with after that answer
RaisedAfter(answer) ==
    IF answer = "ok" THEN ""
    ELSE IF answer = URLError THEN URLError
    ELSE IF answer \in {InvalidCustomerKey, NoValidSubscribers}
    THEN BasketError
    ELSE NewsletterException

\* a worker that is not in send_message
IdleSender == [pc |-> "idle", message_id |-> "", exc |-> ""]

InitSend ==
    /\ pc = "running"
    /\ NoWork
    /\ newsletter_rows = {}
    /\ newsletter_cache = NoCache
    /\ observed = <<>>
    /\ reader = [pc |-> "idle", data |-> {}]
    /\ writer = "idle"
    /\ subscribers = {}
    /\ issued = {}
    /\ request = <<>>
    /\ response = <<>>
    /\ api_users = {}
    /\ procs = [i \in 1..MaxSenders |-> IdleSender]
    /\ vendor_record = <<>>
    /\ rejected = {}
    /\ owed = {}

\* a worker calls send_message(message_id, ...)
CallSendMessage ==
    /\ \E i \in DOMAIN procs, id \in MessageIds :
         /\ procs[i].pc \in {"idle", "done"}
         /\ procs' = [procs EXCEPT ![i] = [pc |-> "called",
                                           message_id |-> id, exc |-> ""]]
    /\ UNCHANGED <<pc, work_vars, registry_vars, subscriber_vars, view_vars,
                   vendor_record, rejected, owed>>

\* lines 532-533: BAD_MESSAGE_ID_CACHE.get(message_id, False)
DenyListGet ==
    /\ \E i \in DOMAIN procs :
         /\ procs[i].pc = "called"
         /\ procs' = [procs EXCEPT
                         ![i].pc = IF procs[i].message_id \in bad_message_ids
                                   THEN "done" ELSE "sending"]
    /\ UNCHANGED <<pc, work_vars, registry_vars, subscriber_vars, view_vars,
                   vendor_record, rejected, owed>>

\* lines 537-557 but for line 552: et.trigger_send and what the except
\* clause makes of the vendor's answer
TriggerSend ==
    /\ \E i \in DOMAIN procs, answer \in SendAnswers :
         /\ procs[i].pc = "sending"
         /\ rejected' = IF answer = InvalidCustomerKey
                        THEN rejected \cup {procs[i].message_id}
                        ELSE rejected
         /\ procs' = [procs EXCEPT
                         ![i].pc = IF IsInvalidId(answer) THEN "invalid"
                                   ELSE "done",
                         ![i].exc = RaisedAfter(answer)]
    /\ UNCHANGED <<pc, work_vars, registry_vars, subscriber_vars, view_vars,
                   vendor_record, owed>>

\* line 552: BAD_MESSAGE_ID_CACHE.set(message_id, True), then the raise
DenyListSet ==
    /\ \E i \in DOMAIN procs :
         /\ procs[i].pc = "invalid"
         /\ bad_message_ids' = bad_message_ids \cup {procs[i].message_id}
         /\ procs' = [procs EXCEPT ![i].pc = "done"]
    /\ UNCHANGED <<pc, parse_vars, cur_before, data, optin, found, vendor,
                   user_data, exempt_from_confirmation, should_send_welcomes,
                   return_code, exc, calls, task_vars, failure_vars,
                   registry_vars, subscriber_vars, view_vars, vendor_record,
                   rejected, owed>>

NextSend == CallSendMessage \/ DenyListGet \/ TriggerSend \/ DenyListSet

SpecSend == InitSend /\ [][NextSend]_vars

-----------------------------------------------------------------------------
(* send_confirm_notice called on its own (news/tasks.py, lines 578-608) *)

\* the calls: the language (the empty string for none), the format and the
\* newsletters involved
InitNotice ==
    /\ pc = "called"
    /\ today = "2014-06-01"
    /\ type = SUBSCRIBE
    /\ newsletters \in ListsUpTo(Slugs, MaxTargets)
    /\ cur_newsletters = None
    /\ record = BaseRecord
    /\ to_subscribe = <<>>
    /\ to_unsubscribe = <<>>
    /\ cur_before = None
    /\ found = NotFound
    /\ vendor \in WelcomeAnswers
    /\ \E l \in Langs, f \in {"H", "T"} :
         data = [lang |-> l, format |-> f, newsletters |-> <<>>,
                 trigger_welcome |-> NoKey]
    /\ optin = FALSE
    /\ user_data = NotFound
    /\ exempt_from_confirmation = FALSE
    /\ should_send_welcomes = FALSE
    /\ return_code = NoCode
    /\ exc = ""
    /\ calls = <<>>
    /\ bad_message_ids \in {{}, {"en_confirmation_email"}}
    /\ NoTask
    /\ NoStore

\* send_confirm_notice(email, token, lang, format, newsletter_slugs) runs
SendConfirmNotice ==
    /\ pc = "called"
    /\ LET out == send_confirm_notice(Start(bad_message_ids), vendor,
                                      data.lang, data.format,
                                      Range(newsletters))
       IN /\ calls' = out.calls
          /\ exc' = out.exc
          /\ bad_message_ids' = out.bad
    /\ bad_before' = bad_message_ids
    /\ pc' = "noticed"
    /\ UNCHANGED <<parse_vars, cur_before, data, optin, found, vendor,
                   user_data, exempt_from_confirmation, should_send_welcomes,
                   return_code, retries, runs, dispatches, task_message_id,
                   failure_vars, store_vars>>

NextNotice == SendConfirmNotice

SpecNotice == InitNotice /\ [][NextNotice]_vars

-----------------------------------------------------------------------------
(* Claims about parse_newsletters, checked under SpecDiff.  Parsed holds   *)
(* in the states that carry the result of a call on the inputs type,       *)
(* newsletters and cur_newsletters.                                        *)

Parsed == pc \in {"parsed", "reparsed"}

\* "nl not in the current subscriptions": unknown counts as not present
NotCurrent(nl) == IsNone(cur_newsletters) \/ nl \notin cur_newsletters.slugs

IsMapped(nl) == newsletter_field(nl) # NoField

\* C1 as stated: under SUBSCRIBE or SET every target slug that is not in the
\* current subscriptions is in to_subscribe and not in to_unsubscribe.
C1_AsStated ==
    (Parsed /\ type \in {SUBSCRIBE, SET}) =>
        \A nl \in Range(newsletters) :
            NotCurrent(nl) => /\ nl \in Range(to_subscribe)
                              /\ nl \notin Range(to_unsubscribe)

\* C1 as amended: under SUBSCRIBE or SET every target slug that has a vendor
\* field and is not in the current subscriptions is in to_subscribe and not in
\* to_unsubscribe.
C1_TargetsSubscribed ==
    (Parsed /\ type \in {SUBSCRIBE, SET}) =>
        \A nl \in Range(newsletters) :
            (IsMapped(nl) /\ NotCurrent(nl)) =>
                /\ nl \in Range(to_subscribe)
                /\ nl \notin Range(to_unsubscribe)

C1_Witness ==
    /\ pc = "parsed"
    /\ type = SET
    /\ IsNone(cur_newsletters)
    /\ newsletters = <<"a", "x">>
    /\ to_subscribe = <<"a">>
    /\ to_unsubscribe # <<>>

\* C2 as stated: under UNSUBSCRIBE or SET every slug that is in the current
\* subscriptions and not in the target list is in to_unsubscribe.
C2_AsStated ==
    (Parsed /\ type \in {UNSUBSCRIBE, SET}) =>
        \A nl \in cur_newsletters.slugs \ Range(newsletters) :
            nl \in Range(to_unsubscribe)

\* C2 as amended: under SET every slug that is in the current subscriptions
\* and not in the target list is in to_unsubscribe; under UNSUBSCRIBE
\* to_unsubscribe holds target slugs only.
C2_SetRemovesTheRest ==
    /\ (Parsed /\ type = SET) =>
           \A nl \in cur_newsletters.slugs \ Range(newsletters) :
               nl \in Range(to_unsubscribe)
    /\ (Parsed /\ type = UNSUBSCRIBE) =>
           Range(to_unsubscribe) \subseteq Range(newsletters)

C2_Witness ==
    /\ pc = "parsed"
    /\ type = SET
    /\ cur_newsletters = Known({"a", "b"})
    /\ newsletters = <<"b">>
    /\ to_unsubscribe = <<"a">>

\* C3: the diff computed again, with the same action and targets, on the
\* current state to which the first diff was applied is empty on both sides.
C3_Idempotent ==
    pc = "reparsed" => (to_subscribe = <<>> /\ to_unsubscribe = <<>>)

C3_Witness ==
    /\ pc = "reparsed"
    /\ type = SET
    /\ ~IsNone(cur_before)
    /\ cur_before.slugs \ cur_newsletters.slugs # {}
    /\ cur_newsletters.slugs \ cur_before.slugs # {}

\* the slugs of the active newsletters of the registry
ActiveSlugs == {nl.slug : nl \in {n \in Newsletter_objects : n.active}}

\* C4: under SET to_unsubscribe is the current set minus the targets when the
\* current set is known, and the active slugs of the registry minus the
\* targets when it is unknown.
C4_SetUnsubscribes ==
    (Parsed /\ type = SET) =>
        Range(to_unsubscribe) =
            IF ~IsNone(cur_newsletters)
            THEN cur_newsletters.slugs \ Range(newsletters)
            ELSE ActiveSlugs \ Range(newsletters)

C4_Witness ==
    /\ pc = "parsed"
    /\ type = SET
    /\ IsNone(cur_newsletters)
    /\ newsletters = <<"b">>
    /\ Range(to_unsubscribe) = {"a", "c"}

\* C5: with the current state unknown, SUBSCRIBE and SET subscribe every
\* target slug that has a vendor field and UNSUBSCRIBE unsubscribes every such
\* target slug; with the current set known and empty, UNSUBSCRIBE
\* unsubscribes nothing.
C5_UnknownCurrent ==
    /\ (Parsed /\ IsNone(cur_newsletters) /\ type \in {SUBSCRIBE, SET}) =>
           to_subscribe = SelectSeq(newsletters, IsMapped)
    /\ (Parsed /\ IsNone(cur_newsletters) /\ type = UNSUBSCRIBE) =>
           to_unsubscribe = SelectSeq(newsletters, IsMapped)
    /\ (Parsed /\ cur_newsletters = Known({}) /\ type = UNSUBSCRIBE) =>
           to_unsubscribe = <<>>

C5_Witness ==
    /\ pc = "parsed"
    /\ IsNone(cur_newsletters)
    /\ type = UNSUBSCRIBE
    /\ newsletters = <<"a", "b">>
    /\ to_unsubscribe = <<"a", "b">>

\* the flag and date fields of the newsletters in the set S of slugs
FlagFields(S) ==
    UNION {{newsletter_field(nl) \o "_FLG", newsletter_field(nl) \o "_DATE"} :
           nl \in S}

\* C6: a slug with no vendor field is in neither to_subscribe nor
\* to_unsubscribe, and the record gains no field for it: the fields added are
\* those of the slugs of the two lists, which all have a vendor field.
C6_UnmappedSkipped ==
    Parsed =>
        /\ \A nl \in Slugs :
               ~IsMapped(nl) => /\ nl \notin Range(to_subscribe)
                                /\ nl \notin Range(to_unsubscribe)
        /\ DOMAIN record \ DOMAIN BaseRecord =
               FlagFields(Range(to_subscribe) \cup Range(to_unsubscribe))

C6_Witness ==
    /\ pc = "parsed"
    /\ type = SET
    /\ newsletters = <<"x", "d">>
    /\ cur_newsletters = Known({"a"})
    /\ to_subscribe = <<>>
    /\ to_unsubscribe = <<"a">>

-----------------------------------------------------------------------------
(* Claims about update_user, checked under Spec.                           *)

\* the run is over and has returned return_code
Returned == pc = "done" /\ exc = ""

\* the messages the run asked the vendor to send
Sends == {i \in DOMAIN calls : calls[i].op = "trigger_send"}

\* the records the run asked the vendor to write
Writes == {i \in DOMAIN calls : calls[i].op = "add_record"}

\* the decision table of the five outcomes
Decision(confirmed, exempt, pending) ==
    IF confirmed THEN UU_ALREADY_CONFIRMED
    ELSE IF exempt THEN (IF pending THEN UU_EXEMPT_PENDING ELSE UU_EXEMPT_NEW)
    ELSE IF pending THEN UU_MUST_CONFIRM_PENDING
    ELSE UU_MUST_CONFIRM_NEW

\* C7: the code update_user returns is the one the decision table gives for
\* (confirmed, exempt, pending); a confirmed user subscribed to {a} who sets
\* {b} gets to_subscribe = [b], to_unsubscribe = [a] and ALREADY_CONFIRMED.
C7_ReturnCode ==
    Returned =>
        /\ return_code = Decision(user_data.confirmed,
                                  exempt_from_confirmation, user_data.pending)
        /\ (/\ found.confirmed
            /\ found.newsletters = Known({"a"})
            /\ type = SET
            /\ newsletters = <<"b">>) =>
               /\ to_subscribe = <<"b">>
               /\ to_unsubscribe = <<"a">>
               /\ return_code = UU_ALREADY_CONFIRMED

C7_Witness ==
    /\ Returned
    /\ found.confirmed
    /\ found.newsletters = Known({"a"})
    /\ type = SET
    /\ newsletters = <<"b">>
    /\ return_code = UU_ALREADY_CONFIRMED

\* whether subscribing to the slug asks for no confirmation
NoDoubleOptin(slug) ==
    \E nl \in Newsletter_objects :
        nl.slug = slug /\ ~nl.requires_double_optin

\* C8: the request is exempt exactly when optin is set or some slug of
\* to_subscribe belongs to a newsletter that requires no double opt-in; such
\* a slug is a target that the user does not hold yet.
C8_Exempt ==
    (pc = "done" /\ found.status # "error") =>
        /\ exempt_from_confirmation <=>
               (optin \/ \E nl \in Range(to_subscribe) : NoDoubleOptin(nl))
        /\ (exempt_from_confirmation /\ ~optin) =>
               /\ type \in {SUBSCRIBE, SET}
               /\ \E nl \in Range(newsletters) :
                      NoDoubleOptin(nl) /\ NotCurrent(nl)

C8_Witness ==
    /\ pc = "done"
    /\ ~optin
    /\ type = SUBSCRIBE
    /\ newsletters = <<"b">>
    /\ cur_newsletters = Known({"b"})
    /\ ~exempt_from_confirmation
    /\ return_code = UU_MUST_CONFIRM_PENDING

\* the ids a confirmation notice may have
ConfirmationIds ==
    {mogrify_message_id(m, l, f) :
        m \in {CONFIRMATION_MESSAGE}
              \cup {nl.confirm_message : nl \in Newsletter_objects},
        l \in Langs, f \in {"H", "T"}}

\* C9 as stated: a run whose to_subscribe is empty asks the vendor to send no
\* message.
C9_AsStated ==
    (pc = "done" /\ to_subscribe = <<>>) => Sends = {}

\* the format confirm_user sends the welcomes in (line 697)
PromotionFormat == IF user_data.format = NoKey THEN "H" ELSE user_data.format

\* C9 as amended: a run whose to_subscribe is empty sends no message when the
\* user is confirmed or is new and exempt; a user who must confirm is sent
\* the confirmation notice and nothing else, and an exempt pending user only
\* welcomes of the newsletters already held, sent by the promotion.
C9_EmptyDiffSends ==
    (pc = "done" /\ to_subscribe = <<>>) =>
        /\ (user_data.confirmed
               \/ (exempt_from_confirmation /\ ~user_data.pending)) =>
               Sends = {}
        /\ (~user_data.confirmed /\ ~exempt_from_confirmation) =>
               /\ Cardinality(Sends) <= 1
               /\ \A i \in Sends : calls[i].target \in ConfirmationIds
        /\ (/\ ~user_data.confirmed
            /\ exempt_from_confirmation
            /\ user_data.pending) =>
               \A i \in Sends :
                   calls[i].target \in
                       WelcomesToSend(user_data, cur_newsletters.slugs,
                                      PromotionFormat)

C9_Witness ==
    /\ Returned
    /\ to_subscribe = <<>>
    /\ type = SUBSCRIBE
    /\ user_data.confirmed
    /\ should_send_welcomes
    /\ newsletters = <<"a">>
    /\ cur_newsletters = Known({"a"})
    /\ Len(calls) = 1

\* C10 as stated: in the outcome MUST_CONFIRM_PENDING no record is written.
C10_AsStated ==
    (Returned /\ return_code = UU_MUST_CONFIRM_PENDING) => Writes = {}

\* C10 as amended: in the outcome MUST_CONFIRM_PENDING the run writes one
\* record, the request's record into the opt-in table and first of all, and
\* the only other call re-sends the confirmation notice.
C10_PendingWritesOptIn ==
    (Returned /\ return_code = UU_MUST_CONFIRM_PENDING) =>
        /\ Writes = {1}
        /\ calls[1].target = EXACTTARGET_OPTIN_STAGE
        /\ calls[1].rec = record
        /\ Len(calls) <= 2
        /\ \A i \in Sends : calls[i].target \in ConfirmationIds

C10_Witness ==
    /\ Returned
    /\ return_code = UU_MUST_CONFIRM_PENDING
    /\ Len(calls) = 2
    /\ calls[2].op = "trigger_send"
    /\ calls[2].target = "fr_confirmation_email_T"

\* the format of the messages of the run (lines 424-431)
Fmt ==
    IF data.format # NoKey THEN FormatChoice(data.format)
    ELSE IF user_data.format # NoKey THEN user_data.format
    ELSE "H"

\* the ids of the messages the run asked the vendor to send
SentIds == {calls[i].target : i \in Sends}

\* the welcome ids of the new subscriptions (send_welcomes on to_subscribe)
NewWelcomes == WelcomesToSend(user_data, Range(to_subscribe), Fmt)

\* C11: in the outcome ALREADY_CONFIRMED the run writes the record once, to
\* the master table if the user is held there and to the opt-in table
\* otherwise; it sends welcomes only under SUBSCRIBE with trigger_welcome
\* absent or 'Y', and no confirmation notice.
C11_AlreadyConfirmed ==
    (Returned /\ return_code = UU_ALREADY_CONFIRMED) =>
        /\ Writes = {1}
        /\ calls[1].target = IF user_data.master THEN EXACTTARGET_DATA
                             ELSE EXACTTARGET_OPTIN_STAGE
        /\ calls[1].rec = record
        /\ Sends # {} =>
               /\ type = SUBSCRIBE
               /\ data.trigger_welcome \in {NoKey, "Y"}
        /\ SentIds \cap ConfirmationIds = {}
        /\ SentIds \subseteq NewWelcomes

C11_Witness ==
    /\ Returned
    /\ return_code = UU_ALREADY_CONFIRMED
    /\ ~user_data.master
    /\ calls[1].target = EXACTTARGET_OPTIN_STAGE
    /\ type = SUBSCRIBE
    /\ data.trigger_welcome = NoKey
    /\ Sends # {}

\* the ids under which the welcome of the newsletter of the slug may be sent
WelcomeIdsOf(slug) ==
    {mogrify_message_id(nl.welcome, l, f) :
        nl \in {n \in Newsletter_objects : n.slug = slug /\ n.welcome # ""},
        l \in Langs, f \in {"H", "T"}}

\* C12 as stated: in the outcome EXEMPT_NEW the record goes to the master
\* table and never to the opt-in table, it carries CREATED_DATE_, and under
\* SUBSCRIBE with the welcomes requested the welcome of every newly
\* subscribed newsletter is sent.
C12_AsStated ==
    (Returned /\ return_code = UU_EXEMPT_NEW) =>
        /\ \A i \in Writes : calls[i].target = EXACTTARGET_DATA
        /\ "CREATED_DATE_" \in DOMAIN calls[1].rec
        /\ should_send_welcomes =>
               \A nl \in Range(to_subscribe) :
                   WelcomeIdsOf(nl) # {} => SentIds \cap WelcomeIdsOf(nl) # {}

\* C12 as amended: in the outcome EXEMPT_NEW the run writes one record, to
\* the master table, carrying CREATED_DATE_; under SUBSCRIBE with the
\* welcomes requested it sends, once each, the welcomes that send_welcomes
\* selects for the new subscriptions (none for Firefox & You when Firefox OS
\* is among them), and otherwise no message.
C12_ExemptNew ==
    (Returned /\ return_code = UU_EXEMPT_NEW) =>
        /\ Writes = {1}
        /\ calls[1].target = EXACTTARGET_DATA
        /\ calls[1].rec = record
        /\ "CREATED_DATE_" \in DOMAIN record
        /\ record["CREATED_DATE_"] = GmtTime
        /\ SentIds = IF should_send_welcomes THEN NewWelcomes ELSE {}
        /\ Cardinality(Sends) = Cardinality(SentIds)

C12_Witness ==
    /\ Returned
    /\ return_code = UU_EXEMPT_NEW
    /\ type = SUBSCRIBE
    /\ ~optin
    /\ IsNone(cur_newsletters)
    /\ to_subscribe = <<"b">>
    /\ should_send_welcomes
    /\ SentIds = {"en_FxOS_Welcome"}

\* C13: in the outcome MUST_CONFIRM_NEW the run writes one record, to the
\* opt-in table, carrying CREATED_DATE_, SubscriberKey (the token) and
\* EmailAddress (the email), and then sends a confirmation notice; in the
\* outcome MUST_CONFIRM_PENDING the record has none of the three fields.
C13_MustConfirmNew ==
    /\ (Returned /\ return_code = UU_MUST_CONFIRM_NEW) =>
           /\ Writes = {1}
           /\ calls[1].target = EXACTTARGET_OPTIN_STAGE
           /\ {"CREATED_DATE_", "SubscriberKey", "EmailAddress"}
                  \subseteq DOMAIN calls[1].rec
           /\ calls[1].rec["CREATED_DATE_"] = GmtTime
           /\ calls[1].rec["SubscriberKey"] = "token"
           /\ calls[1].rec["SubscriberKey"] = calls[1].rec["TOKEN"]
           /\ calls[1].rec["EmailAddress"] = "email"
           /\ calls[1].rec["EmailAddress"] = calls[1].rec["EMAIL_ADDRESS_"]
           /\ Sends = {2}
           /\ calls[2].target \in ConfirmationIds
    /\ (Returned /\ return_code = UU_MUST_CONFIRM_PENDING) =>
           {"CREATED_DATE_", "SubscriberKey", "EmailAddress"}
               \cap DOMAIN calls[1].rec = {}

C13_Witness ==
    /\ Returned
    /\ return_code = UU_MUST_CONFIRM_NEW
    /\ to_subscribe = <<"c">>
    /\ Len(calls) = 2
    /\ calls[2].target = "en_Confirm_C"

\* C14: a pending user exempt from confirmation: the first call writes the
\* record to the opt-in table, the second writes the token to the
\* confirmation table, and every later call sends a welcome of the
\* newsletters held; when the first write fails nothing follows it.
C14_ExemptPending ==
    (/\ pc = "done"
     /\ found.status = "ok"
     /\ ~user_data.confirmed
     /\ user_data.pending
     /\ exempt_from_confirmation) =>
        /\ Len(calls) >= 1
        /\ calls[1] = [op |-> "add_record",
                       target |-> EXACTTARGET_OPTIN_STAGE, rec |-> record]
        /\ vendor.fail_at = 1 => (Len(calls) = 1 /\ exc = NewsletterException)
        /\ Len(calls) >= 2 =>
               calls[2] = [op |-> "add_record",
                           target |-> EXACTTARGET_CONFIRMATION,
                           rec |-> [TOKEN |-> "token"]]
        /\ vendor.fail_at = 2 => (Len(calls) = 2 /\ exc = NewsletterException)
        /\ \A i \in DOMAIN calls :
               i >= 3 =>
                   /\ calls[i].op = "trigger_send"
                   /\ calls[i].target \in
                          WelcomesToSend(user_data, cur_newsletters.slugs,
                                         PromotionFormat)
        /\ Returned =>
               /\ Len(calls) >= 2
               /\ return_code = UU_EXEMPT_PENDING

C14_Witness ==
    /\ Returned
    /\ return_code = UU_EXEMPT_PENDING
    /\ Len(calls) = 3
    /\ calls[2].target = EXACTTARGET_CONFIRMATION
    /\ calls[3].op = "trigger_send"

\* C15: a run that ends in MUST_CONFIRM_PENDING or MUST_CONFIRM_NEW sends no
\* welcome and writes nothing to the confirmation table; a pending user who
\* subscribes to a newsletter that requires the double opt-in, and to no
\* other, without the bypass ends in MUST_CONFIRM_PENDING.
C15_MustConfirmNoWelcome ==
    /\ (/\ pc = "done"
        /\ return_code \in {UU_MUST_CONFIRM_PENDING, UU_MUST_CONFIRM_NEW}) =>
           /\ SentIds \subseteq ConfirmationIds
           /\ \A nl \in Slugs : SentIds \cap WelcomeIdsOf(nl) = {}
           /\ \A i \in DOMAIN calls :
                  calls[i].target # EXACTTARGET_CONFIRMATION
    /\ (/\ Returned
        /\ found.pending
        /\ type = SUBSCRIBE
        /\ ~optin
        /\ newsletters # <<>>
        /\ \A nl \in Range(newsletters) :
               IsMapped(nl) /\ ~NoDoubleOptin(nl)) =>
           return_code = UU_MUST_CONFIRM_PENDING

C15_Witness ==
    /\ Returned
    /\ found.pending
    /\ type = SUBSCRIBE
    /\ ~optin
    /\ newsletters = <<"a">>
    /\ to_subscribe = <<"a">>
    /\ should_send_welcomes
    /\ return_code = UU_MUST_CONFIRM_PENDING
    /\ Len(calls) = 2

-----------------------------------------------------------------------------
(* Claims about the messages and the task wrapper, checked under SpecTask. *)

\* an execution of the task has taken place and it looked the user up
Ran == runs > 0 /\ found.status = "ok"

\* the language and the format the task sends the recovery message in
RecoveryLang == IF found.lang \in {NoKey, ""} THEN "en" ELSE found.lang

RecoveryFormat == IF found.format \in {NoKey, ""} THEN "H" ELSE found.format

\* the message id expected for the recovery message of the user
ExpectedRecoveryId ==
    LET prefix == CASE RecoveryLang \in {"en", "en-US"} -> "en_"
                    [] RecoveryLang = "fr" -> "fr_"
                    [] RecoveryLang \in {"pt", "PT"} -> "pt_"
        suffix == IF RecoveryFormat = "T" THEN "_T" ELSE ""
    IN prefix \o "recovery_message" \o suffix

\* C16: mogrify_message_id prefixes the id with the two first letters of the
\* language, in lower case, and an underscore when the language is not empty,
\* and appends _T exactly when the format is text ('T'); its result depends
\* on nothing but its arguments, so every execution of the task computes the
\* same id.
C16_Mogrify ==
    /\ mogrify_message_id("WELCOME", "fr", "H") = "fr_WELCOME"
    /\ mogrify_message_id("WELCOME", "pt", "T") = "pt_WELCOME_T"
    /\ mogrify_message_id("WELCOME", "", "H") = "WELCOME"
    /\ mogrify_message_id("WELCOME", "", "T") = "WELCOME_T"
    /\ mogrify_message_id("WELCOME", "en-US", "H") = "en_WELCOME"
    /\ Ran => task_message_id = ExpectedRecoveryId

C16_Witness ==
    /\ Ran
    /\ runs = 2
    /\ found.lang = "PT"
    /\ found.format = "T"
    /\ task_message_id = "pt_recovery_message_T"

\* the vendor failed the call of the last execution with the given error
VendorFailed(kind) ==
    /\ Ran
    /\ calls # <<>>
    /\ vendor.fail_at = 1
    /\ vendor.fail_kind = kind

\* C17: send_message on a message id that BAD_MESSAGE_ID_CACHE holds calls
\* the vendor not at all and returns: the task succeeds.
C17_DenyListed ==
    (Ran /\ task_message_id \in bad_before) =>
        /\ calls = <<>>
        /\ exc = ""
        /\ pc = SUCCESS
        /\ bad_message_ids = bad_before

C17_Witness ==
    /\ Ran
    /\ pc = SUCCESS
    /\ task_message_id = "en_recovery_message"
    /\ task_message_id \in bad_before
    /\ vendor.fail_at = 1
    /\ calls = <<>>

\* C18: when trigger_send fails with 'Invalid Customer Key', send_message
\* puts the id in BAD_MESSAGE_ID_CACHE and raises BasketError: the task fails
\* and is not retried.  The id stays in the cache, and an execution that
\* begins with the id in the cache makes no vendor call.
C18_InvalidMessageId ==
    /\ VendorFailed(InvalidCustomerKey) =>
           /\ bad_message_ids = bad_before \cup {task_message_id}
           /\ exc = BasketError
           /\ pc = FAILURE
           /\ retries = runs - 1
    /\ bad_before \subseteq bad_message_ids
    /\ (Ran /\ task_message_id \in bad_before) => calls = <<>>

C18_Witness ==
    /\ Ran
    /\ dispatches = 2
    /\ runs = 1
    /\ task_message_id = "fr_recovery_message"
    /\ task_message_id \in bad_before
    /\ calls = <<>>

\* C19: when trigger_send fails with 'There are no valid subscribers.',
\* send_message raises BasketError, which is not retried, and the cache is
\* left as it was; on any other NewsletterException it raises the error
\* again, which is retried while retries remain, and the cache is left as it
\* was.
C19_OtherVendorErrors ==
    /\ VendorFailed(NoValidSubscribers) =>
           /\ exc = BasketError
           /\ pc = FAILURE
           /\ retries = runs - 1
           /\ bad_message_ids = bad_before
    /\ VendorFailed(OtherError) =>
           /\ exc = NewsletterException
           /\ bad_message_ids = bad_before
           /\ pc \in {RETRY, FAILURE}
           /\ pc = RETRY => retries = runs
           /\ pc = FAILURE => runs = max_retries + 1

C19_Witness ==
    /\ VendorFailed(OtherError)
    /\ pc = RETRY
    /\ retries = 3
    /\ bad_before = {"en_recovery_message"}
    /\ task_message_id = "fr_recovery_message_T"

\* C20: an execution that ends in URLError or NewsletterException is
\* rescheduled as long as the task was retried fewer than max_retries times;
\* a task is retried at most 6 times, that is executed at most 7 times.
C20_BoundedRetries ==
    /\ max_retries = 6
    /\ retries <= max_retries
    /\ runs <= max_retries + 1
    /\ (pc \in {RETRY, SUCCESS, FAILURE}
        /\ exc \in {URLError, NewsletterException}) =>
           /\ runs <= max_retries => (pc = RETRY /\ retries = runs)
           /\ runs > max_retries => (pc = FAILURE /\ retries = max_retries)
    /\ pc = RETRY => exc \in {URLError, NewsletterException}

C20_Witness ==
    /\ pc = FAILURE
    /\ exc = URLError
    /\ runs = 7
    /\ retries = 6

\* the rows of FailedTask of the task of the given id
RowsOf(id) == {row \in failed_tasks : row.task_id = id}

Retryable == {URLError, NewsletterException}

\* C21: a task that fails for good, with an error that is not retried or
\* with its retries exhausted, leaves exactly one row of FailedTask, with its
\* name, its arguments and the error; a task that is waiting, rescheduled or
\* successful leaves none; an error that is not worth a retry fails the task
\* at once.
C21_FailedTaskRecorded ==
    /\ pc = FAILURE =>
           /\ RowsOf(dispatches) =
                  {[task_id |-> dispatches, name |-> task.name,
                    args |-> task.args, exc |-> exc]}
           /\ \/ exc = BasketError /\ retries = runs - 1
              \/ exc \in Retryable /\ runs = max_retries + 1
    /\ pc \in {PENDING, RETRY, SUCCESS} => RowsOf(dispatches) = {}
    /\ \A id \in 1..dispatches : Cardinality(RowsOf(id)) <= 1
    /\ \A row \in failed_tasks : row.task_id \in 1..dispatches
    /\ (runs > 0 /\ exc = BasketError) => (pc = FAILURE /\ retries = runs - 1)

C21_Witness ==
    /\ pc = FAILURE
    /\ exc = NewsletterException
    /\ runs = 7
    /\ Cardinality(failed_tasks) = 1
    /\ replayed = <<>>

C23_Terminates ==
    /\ [](pc = FAILURE => RowsOf(dispatches) # {})
    /\ (pc \in {PENDING, RETRY}) ~> (pc \in {SUCCESS, FAILURE})

C23_Witness ==
    /\ pc = SUCCESS
    /\ runs = 7
    /\ retries = 6
    /\ calls # <<>>

-----------------------------------------------------------------------------
(* Claims about the registry of newsletters, checked under SpecRegistry.   *)

\* C24: once a newsletter has been created, updated or deleted, a read of
\* the registry returns the stored definitions, so that newsletter_fields
\* lists the vendor id of a newsletter just created and not that of a
\* deleted one; and the cache never holds anything else than the table.
C24_ReadsReflectStore ==
    /\ pc = "read" =>
           /\ observed[1] = newsletter_rows
           /\ newsletter_fields(observed[1])
                  = {row.vendor_id : row \in newsletter_rows}
    /\ newsletter_cache.filled => newsletter_cache.data = newsletter_rows

\* a read saw the newsletter 'slug' and, once it is deleted and another is
\* created, the next read sees the other alone
C24_Witness ==
    /\ pc = "read"
    /\ Len(observed) = 2
    /\ newsletter_fields(observed[2]) = {"VEND1"}
    /\ newsletter_fields(observed[1]) = {"VEND2"}
    /\ {row.slug : row \in observed[2]} = {"slug"}
    /\ {row.slug : row \in observed[1]} = {"slug2"}

\* C25: with a reader running while a writer does, the cache is cleared
\* before the write is over, and no interleaving of the reader's cache fill
\* with the write leaves in the cache, or returns from it, a definition
\* that is deleted or outdated once the write is over.
C25_AsStated ==
    /\ pc = "cleared" => ~newsletter_cache.filled
    /\ (writer = "idle" /\ newsletter_cache.filled) =>
           \A nl \in newsletter_cache.data : nl \in newsletter_rows
    /\ (writer = "idle" /\ pc = "hit") =>
           \A nl \in observed[1] : nl \in newsletter_rows

-----------------------------------------------------------------------------
(* Claims about send_welcomes, checked under SpecWelcomes.  Sent holds     *)
(* once the call is over.                                                  *)

Sent == pc = "sent"

\* the newsletters of the slugs the call is given
Selected == {nl \in Newsletter_objects : nl.slug \in Range(newsletters)}

\* the Firefox & You newsletters and the Firefox OS newsletters
FFAY == {nl \in Newsletter_objects : nl.vendor_id = FFAY_VENDOR_ID}
FFOS == {nl \in Newsletter_objects : nl.vendor_id = FFOS_VENDOR_ID}

\* the two-letter language of the user, 'en' if the user has no language key
UserLang ==
    IF user_data.lang \in {NoKey, "en", "en-US"} THEN "en"
    ELSE IF user_data.lang = "fr" THEN "fr"
    ELSE IF user_data.lang \in {"pt", "PT"} THEN "pt"
    ELSE ""

\* the two-letter languages of a newsletter
LanguagesOf(nl) ==
    {IF nl.languages[i] = "en-US" THEN "en" ELSE nl.languages[i] :
        i \in DOMAIN nl.languages}

\* the id of the welcome of a newsletter for the user: in the user's
\* language if the newsletter is published in it, in English otherwise
ExpectedWelcome(nl) ==
    (IF UserLang \in LanguagesOf(nl) THEN UserLang ELSE "en")
        \o "_" \o nl.welcome
        \o (IF user_data.format = "T" THEN "_T" ELSE "")

\* the ids of the welcomes of a set of newsletters, those without one apart
ExpectedWelcomes(nls) ==
    {ExpectedWelcome(nl) : nl \in {n \in nls : n.welcome # ""}}

\* the call met no vendor failure and no denied message id
Unhindered == exc = "" /\ bad_before = {}

\* C26: when a Firefox OS newsletter is among the selected ones the
\* welcomes sent are those of the selected newsletters other than Firefox
\* & You, whether it is selected or not (its message goes out only as the
\* welcome of another selected newsletter that has the same one);
\* otherwise the welcomes sent are those of all the selected newsletters,
\* Firefox & You among them.
C26_FxOSDropsFFAY ==
    Sent =>
        /\ (Selected \cap FFOS # {}) =>
               /\ SentIds \subseteq ExpectedWelcomes(Selected \ FFAY)
               /\ Unhindered => SentIds = ExpectedWelcomes(Selected \ FFAY)
        /\ (Selected \cap FFOS = {} /\ Unhindered) =>
               SentIds = ExpectedWelcomes(Selected)

\* Firefox & You and Firefox OS are both selected: the one welcome sent is
\* that of Firefox OS
C26_Witness ==
    /\ Sent
    /\ newsletters = <<"a", "b">>
    /\ user_data.lang = "fr"
    /\ user_data.format = "H"
    /\ Unhindered
    /\ SentIds = {"fr_FxOS_Welcome"}
    /\ Len(calls) = 1

\* the newsletters whose welcomes the call is to send
Welcomed ==
    IF Selected \cap FFOS # {} THEN Selected \ FFAY ELSE Selected

\* C27: the welcome of each newsletter is resolved in the user's two-letter
\* language if the newsletter is published in it and in 'en' otherwise,
\* also for a user without a language; the call sends messages and writes
\* no field of a subscription.
C27_LanguageFallback ==
    Sent =>
        /\ SentIds \subseteq ExpectedWelcomes(Welcomed)
        /\ Unhindered => SentIds = ExpectedWelcomes(Welcomed)
        /\ \A i \in DOMAIN calls :
               /\ calls[i].op = "trigger_send"
               /\ DOMAIN calls[i].rec
                      = {"EMAIL_ADDRESS_", "TOKEN", "EMAIL_FORMAT_"}

\* a French-speaking user gets the welcome of a newsletter published in
\* French in French and that of one published in English alone in English
C27_Witness ==
    /\ Sent
    /\ Range(newsletters) = {"a", "c"}
    /\ user_data.lang = "fr"
    /\ user_data.format = "T"
    /\ Unhindered
    /\ SentIds = {"fr_Welcome_T", "en_Welcome_T"}

\* C28: no two sends of a call carry the same message id, nothing is sent
\* for a newsletter without a welcome, and a call that resolves no welcome
\* ends without an exception and without a vendor call.
C28_OneSendPerWelcome ==
    Sent =>
        /\ \A i, j \in DOMAIN calls :
               calls[i].target = calls[j].target => i = j
        /\ Len(calls) <= Cardinality(ExpectedWelcomes(Welcomed))
        /\ \A i \in DOMAIN calls :
               \E nl \in Selected :
                   nl.welcome # "" /\ calls[i].target = ExpectedWelcome(nl)
        /\ ExpectedWelcomes(Welcomed) = {} => (calls = <<>> /\ exc = "")

\* two selected newsletters share their welcome, a third has none: one send
C28_Witness ==
    /\ Sent
    /\ Range(newsletters) = {"a", "c", "d"}
    /\ user_data.lang = "en-US"
    /\ Unhindered
    /\ Len(calls) = 1
    /\ SentIds = {"en_Welcome"}

-----------------------------------------------------------------------------
(* Claims about the Subscriber table, checked under SpecSubscribers. *)

\* C29: whatever calls of get_and_sync and update_fxa_info are made, every
\* Subscriber holds the token it was created with, and no two Subscribers
\* hold the same token.
C29_AsStated ==
    /\ \A sub \in subscribers :
           [email |-> sub.email, token |-> sub.token] \in issued
    /\ \A s1, s2 \in subscribers : s1.token = s2.token => s1 = s2

-----------------------------------------------------------------------------
(* Claims about the users the vendor does not know, checked under          *)
(* SpecLookup.                                                             *)

\* the language update_user goes on with for a user the vendor does not
\* know: the one of the request
AskedLang == IF data.lang = NoKey THEN "" ELSE data.lang

\* an execution of the named task is over
Executed(name) == runs > 0 /\ task.name = name

\* C30: when the vendor has no results, get_external_user_data returns
\* None and raises nothing; update_user goes on with a user who is neither
\* confirmed nor pending nor in the master table and reaches no other
\* outcome than EXEMPT_NEW and MUST_CONFIRM_NEW, and it is neither
\* rescheduled nor recorded as failed unless a vendor call fails later or
\* the language has no confirmation message; send_recovery_message_task
\* sends nothing and succeeds.
C30_NoResultsIsNoError ==
    /\ (pc = "looked up" /\ record.kind = "no results") =>
           (exc = "" /\ found = NotFound)
    /\ Executed("news.tasks.update_user") =>
           /\ ~user_data.master /\ ~user_data.pending /\ ~user_data.confirmed
           /\ return_code \in {NoCode, UU_EXEMPT_NEW, UU_MUST_CONFIRM_NEW}
           /\ (vendor.fail_at = 0
                  /\ (exempt_from_confirmation
                         \/ is_supported_newsletter_language(
                                IF AskedLang = "" THEN "en" ELSE AskedLang)))
                  => /\ pc = SUCCESS
                     /\ exc = ""
                     /\ retries = 0
                     /\ failed_tasks = {}
                     /\ return_code \in {UU_EXEMPT_NEW, UU_MUST_CONFIRM_NEW}
    /\ Executed("news.tasks.send_recovery_message_task") =>
           /\ calls = <<>>
           /\ pc = SUCCESS
           /\ exc = ""
           /\ retries = 0
           /\ failed_tasks = {}

\* a new user asks for a newsletter that needs a confirmation: the record
\* is written and the confirmation sent, without a retry
C30_Witness ==
    /\ Executed("news.tasks.update_user")
    /\ pc = SUCCESS
    /\ return_code = UU_MUST_CONFIRM_NEW
    /\ user_data = MinimalUserData("en-US")
    /\ Len(calls) = 2
    /\ failed_tasks = {}

-----------------------------------------------------------------------------
(* Further claims about update_user, checked under Spec. *)

\* the vendor failed one of the calls the run issued
VendorFailedCall == vendor.fail_at \in 1..Len(calls)

\* C31: when the lookup reports an error the run raises the exception
\* worth a retry before any vendor call; when the vendor fails a write or
\* a send, that call is the last of the run and the run raises an
\* exception, one worth a retry or a fatal one; a run that raises nothing
\* met no failed call and returns a code.
C31_ErrorsPropagate ==
    pc = "done" =>
        /\ found.status = "error" =>
               (exc = NewsletterException /\ calls = <<>>)
        /\ VendorFailedCall =>
               /\ exc \in {NewsletterException, URLError, BasketError}
               /\ Len(calls) = vendor.fail_at
        /\ exc = "" => (~VendorFailedCall /\ return_code # NoCode)

\* the record was written and the send that followed was refused
C31_Witness ==
    /\ pc = "done"
    /\ vendor = [fail_at |-> 2, fail_kind |-> NoValidSubscribers]
    /\ Len(calls) = 2
    /\ calls[1].op = "add_record"
    /\ calls[2].op = "trigger_send"
    /\ exc = BasketError

-----------------------------------------------------------------------------
(* Claims about the subscribe view, checked under SpecSubscribe. *)

Responded == pc = "responded"

\* the view dispatched update_user
Dispatched == task.name = "news.tasks.update_user"

\* the request carries the key of an enabled API user
ValidKey ==
    \E u \in api_users : u.api_key = request.api_key /\ u.enabled

\* the request asks for the bypass, in either case
AsksOptin == request.optin \in {"Y", "y"}

\* the request names newsletters that all exist, in a language that is
\* blank or known, and does not ask for a synchronous update
Acceptable ==
    /\ request.posted
    /\ request.newsletters # <<>>
    /\ \A i \in DOMAIN request.newsletters :
           request.newsletters[i] \in {"a", "b", "c", "d"}
    /\ request.lang \in {NoKey, "", "en"}
    /\ request.sync = NoKey

\* C32: update_user is dispatched with the bypass flag true only for a
\* request that asks optin=Y or y, came over SSL and carries the key of an
\* enabled API user; a request that asks for it without SSL or without
\* such a key succeeds all the same, the flag being false.
C32_OptinNeedsSslAndKey ==
    Responded =>
        /\ Dispatched =>
               (task.args[4] <=> (AsksOptin /\ request.ssl /\ ValidKey))
        /\ (Acceptable /\ AsksOptin /\ ~(request.ssl /\ ValidKey)) =>
               /\ response.status = 200
               /\ Dispatched
               /\ task.args[4] = FALSE

\* over SSL with the key of a disabled API user: accepted, without bypass
C32_Witness ==
    /\ Responded
    /\ request.optin = "y"
    /\ request.ssl
    /\ request.api_key = "k2"
    /\ api_users = ApiUsers
    /\ response.status = 200
    /\ Dispatched
    /\ task.args[4] = FALSE

\* the request names no newsletter, names one that does not exist, or gives
\* a language that is neither blank nor known
Unacceptable ==
    \/ ~request.posted
    \/ request.newsletters = <<>>
    \/ \E i \in DOMAIN request.newsletters : request.newsletters[i] = "x"
    \/ request.lang = "55"

\* C33: a request that names no newsletter, names a newsletter that does
\* not exist or gives an invalid language is answered with an error, and
\* the Subscriber table is as it was: no row is created and no task is
\* dispatched; a blank language is not a reason to reject a request.
C33_RejectedLeavesStore ==
    Responded =>
        /\ Unacceptable =>
               /\ response.status \in {400, 401}
               /\ (request.sync = NoKey) => response.status = 400
               /\ subscribers \in {{}, {Row0}}
               /\ issued = {[email |-> sub.email, token |-> sub.token] :
                               sub \in subscribers}
               /\ ~Dispatched
        /\ (request.lang = "" /\ request.sync = NoKey
               /\ request.posted /\ request.newsletters # <<>>
               /\ \A i \in DOMAIN request.newsletters :
                      request.newsletters[i] # "x") =>
               /\ response.status = 200
               /\ \E sub \in subscribers : sub.email = request.email

\* a request for a newsletter that exists and one that does not, from an
\* address without a Subscriber
C33_Witness ==
    /\ Responded
    /\ request.newsletters = <<"a", "x">>
    /\ request.email = "e2"
    /\ request.lang = "en"
    /\ response = [status |-> 400, desc |-> "invalid newsletter"]
    /\ subscribers = {Row0}

-----------------------------------------------------------------------------
(* A further claim about parse_newsletters, checked under SpecDiff. *)

\* the names of the flag and of the date of the newsletters of the slugs
FieldsOf(slugs) ==
    UNION {{newsletter_field(s) \o "_FLG", newsletter_field(s) \o "_DATE"} :
              s \in slugs}

\* C34: the record holds, beside the fields it was given, the flag and the
\* date of the newsletters of to_subscribe and of to_unsubscribe and of no
\* other: the flag is 'Y' for the former and 'N' for the latter, the date
\* is the current day, and the fields it was given are as they were.
C34_OnlyChangedFlags ==
    Parsed =>
        /\ DOMAIN record =
               DOMAIN BaseRecord
                   \cup FieldsOf(Range(to_subscribe) \cup Range(to_unsubscribe))
        /\ \A k \in DOMAIN BaseRecord : record[k] = BaseRecord[k]
        /\ \A s \in Range(to_subscribe) :
               /\ record[newsletter_field(s) \o "_FLG"] = "Y"
               /\ record[newsletter_field(s) \o "_DATE"] = today
        /\ \A s \in Range(to_unsubscribe) :
               /\ record[newsletter_field(s) \o "_FLG"] = "N"
               /\ record[newsletter_field(s) \o "_DATE"] = today
        /\ \A s \in Slugs \ (Range(to_subscribe) \cup Range(to_unsubscribe)) :
               \A nl \in Newsletter_objects :
                   nl.slug = s =>
                       /\ (nl.vendor_id \o "_FLG") \notin DOMAIN record
                       /\ (nl.vendor_id \o "_DATE") \notin DOMAIN record

\* SET on a user subscribed to a and b, with the targets b and c: c is
\* flagged 'Y', a is flagged 'N' and b is not in the record
C34_Witness ==
    /\ pc = "parsed"
    /\ type = SET
    /\ newsletters = <<"b", "c">>
    /\ cur_newsletters = Known({"a", "b"})
    /\ to_subscribe = <<"c">>
    /\ to_unsubscribe = <<"a">>
    /\ record["VEND_C_FLG"] = "Y"
    /\ record["MOZILLA_AND_YOU_FLG"] = "N"
    /\ "FIREFOX_OS_FLG" \notin DOMAIN record

-----------------------------------------------------------------------------
(* A further claim about the welcomes of update_user, checked under Spec. *)

\* the request asks for welcomes: SUBSCRIBE with trigger_welcome absent or
\* 'Y'
WelcomesAsked == type = SUBSCRIBE /\ data.trigger_welcome \in {NoKey, "Y"}

\* the run asked the vendor to send the welcome of some newsletter
WelcomeSent == \E nl \in Slugs : SentIds \cap WelcomeIdsOf(nl) # {}

\* the run took the branch of the pending user exempt from confirmation
PromotedPending ==
    /\ found.status = "ok"
    /\ ~user_data.confirmed
    /\ user_data.pending
    /\ exempt_from_confirmation

\* C35 as stated: in every outcome a run under another action than
\* SUBSCRIBE, or with trigger_welcome set to another value than 'Y', sends
\* no welcome.
C35_AsStated ==
    (pc = "done" /\ ~WelcomesAsked) => ~WelcomeSent

\* C35 as amended: a run under another action than SUBSCRIBE, or with
\* trigger_welcome set to another value than 'Y', sends no welcome of the
\* newsletters it subscribes the user to; the one welcome it may send is
\* that of a newsletter a pending user already holds, sent by confirm_user
\* when the run promotes the user (EXEMPT_PENDING).
C35_WelcomesOnlyAsked ==
    pc = "done" =>
        /\ should_send_welcomes <=> (WelcomesAsked /\ found.status \in {"none", "ok"})
        /\ (~WelcomesAsked /\ WelcomeSent) =>
               /\ PromotedPending
               /\ Len(calls) >= 3
               /\ calls[2].target = EXACTTARGET_CONFIRMATION
               /\ SentIds \subseteq
                      WelcomesToSend(user_data, cur_newsletters.slugs,
                                     PromotionFormat)

\* a new user set to a newsletter that needs no confirmation: the record
\* is written to the master table and no welcome is sent
C35_Witness ==
    /\ Returned
    /\ type = SET
    /\ return_code = UU_EXEMPT_NEW
    /\ "b" \in Range(to_subscribe)
    /\ data.trigger_welcome = "Y"
    /\ Len(calls) = 1
    /\ ~WelcomeSent

-----------------------------------------------------------------------------
(* A claim about the attempts of one update_user task, checked under       *)
(* SpecRetry.                                                              *)

\* the attempt that just ended was a retry the vendor did not fail
UnfailedRetry ==
    /\ pc = SUCCESS
    /\ runs >= 2
    /\ vendor.fail_at = 0
    /\ found.status # "error"

\* C36 as stated: when an attempt has written its record and the send after
\* it failed with an error worth retrying, a later attempt that the vendor
\* does not fail sends the message of that send.
C36_AsStated ==
    UnfailedRetry => owed \subseteq SentIds

-----------------------------------------------------------------------------
(* A claim about confirm_user, checked under SpecConfirm. *)

\* the run of confirm_user is over
Confirmed == pc = "done"

\* C37: confirm_user on a user who is already confirmed returns without a
\* call to the vendor: nothing is written to the confirmation table and no
\* welcome is sent.  It raises BasketError, which fails the task, when no
\* user is found or when the user has no email, and NewsletterException,
\* which is retried, when the user data has the status error; in the three
\* cases the vendor has not been called.
C37_ConfirmGuards ==
    Confirmed =>
        /\ user_data.status = "none" =>
               /\ exc = BasketError
               /\ calls = <<>>
        /\ user_data.status = "error" =>
               /\ exc = NewsletterException
               /\ calls = <<>>
        /\ (user_data.status = "ok" /\ user_data.confirmed) =>
               /\ exc = ""
               /\ calls = <<>>
        /\ (user_data.status = "ok" /\ ~user_data.confirmed
              /\ user_data.email = "") =>
               /\ exc = BasketError
               /\ calls = <<>>
        /\ et_task(BasketError, 0).status = FAILURE
        /\ et_task(NewsletterException, 0).status = RETRY
        /\ calls # <<>> =>
               /\ ~user_data.confirmed
               /\ calls[1].target = EXACTTARGET_CONFIRMATION

\* a confirmed user who holds a newsletter with a welcome message is
\* confirmed again: nothing happens
C37_Witness ==
    /\ Confirmed
    /\ user_data.status = "ok"
    /\ user_data.confirmed
    /\ "a" \in user_data.newsletters.slugs
    /\ vendor.fail_at = 0
    /\ exc = ""
    /\ calls = <<>>

-----------------------------------------------------------------------------
(* A claim about two concurrent update_user tasks, checked under           *)
(* SpecConcurrent.                                                         *)

\* the newsletters the table of that name holds for the user
SlugsOf(table) ==
    IF table = EXACTTARGET_DATA THEN vendor_record.master.slugs
    ELSE IF table = EXACTTARGET_OPTIN_STAGE THEN vendor_record.optin.slugs
    ELSE {}

\* the tasks that have completed
Completed == {i \in DOMAIN procs : procs[i].pc = "done"}

-----------------------------------------------------------------------------
(* A claim about concurrent calls of send_message, checked under SpecSend. *)

\* C39: whatever the interleaving of the calls of send_message, the
\* deny-list holds only message ids the vendor has rejected as invalid
\* before (an id that was sent, or failed for another reason only, is not in
\* it), and no step of send_message removes an id from it.
C39_DenyListOnlyRejected ==
    /\ [](bad_message_ids \subseteq rejected)
    /\ [][bad_message_ids \subseteq bad_message_ids']_vars

\* one call was rejected for its message id, which is on the deny-list;
\* the other failed for another reason, and its id is not
C39_Witness ==
    /\ procs[1].pc = "done"
    /\ procs[1].exc = BasketError
    /\ procs[1].message_id \in bad_message_ids
    /\ procs[2].pc = "done"
    /\ procs[2].exc = NewsletterException
    /\ procs[2].message_id \notin bad_message_ids

-----------------------------------------------------------------------------
(* A claim about send_confirm_notice, checked under SpecNotice. *)

\* the call of send_confirm_notice is over
Noticed == pc = "noticed"

\* the language of the notice: 'en' when none is known
NoticeLang == IF data.lang = "" THEN "en" ELSE data.lang

\* the custom confirmation messages of the newsletters involved
CustomConfirmations ==
    {nl.confirm_message :
        nl \in {n \in Newsletter_objects :
                   n.slug \in Range(newsletters) /\ n.confirm_message # ""}}

\* the ids the notice may have: a custom one if there is any, the default
\* one otherwise, in the language and the format of the call
NoticeIds ==
    {mogrify_message_id(base, NoticeLang, data.format) :
        base \in IF CustomConfirmations # {} THEN CustomConfirmations
                 ELSE {CONFIRMATION_MESSAGE}}

\* C40: send_confirm_notice takes 'en' for the language when none is known;
\* when no newsletter is published in the language it raises BasketError,
\* which is not retried, and calls the vendor for nothing; otherwise it
\* sends one message, which the vendor is asked for once unless its id is
\* on the deny-list, and whose base id is the custom confirm_message of a
\* newsletter involved if any has one and the default confirmation message
\* otherwise.
C40_ConfirmNotice ==
    Noticed =>
        IF ~is_supported_newsletter_language(NoticeLang)
        THEN /\ exc = BasketError
             /\ et_task(exc, 0).status = FAILURE
             /\ calls = <<>>
        ELSE /\ Len(calls) <= 1
             /\ calls = <<>> =>
                    /\ NoticeIds \cap bad_before # {}
                    /\ exc = ""
             /\ calls # <<>> =>
                    /\ calls[1].op = "trigger_send"
                    /\ calls[1].target \in NoticeIds
                    /\ calls[1].target \notin bad_before
                    /\ calls[1].rec["EMAIL_FORMAT_"] = data.format

\* no language is known and one of the two newsletters has its own
\* confirmation message: that message is sent in English
C40_Witness ==
    /\ Noticed
    /\ data.lang = ""
    /\ data.format = "T"
    /\ newsletters = <<"a", "c">>
    /\ exc = ""
    /\ SentIds = {"en_Confirm_C_T"}
    /\ Len(calls) = 1

====
